---- MODULE Spec2Model ----
(***************************************************************************)
(* Model of claudefix.  The PTY wrapper (src/bin/claude-fixed.js):         *)
(*   - stripColors, the SGR sanitizer, as a pure function over strings     *)
(*     (sequences of one-character strings), checked under SpecSGR;        *)
(*   - the output buffer / flush scheduler, the footer redraw debounce     *)
(*     and the session teardown handlers, checked under Spec;              *)
(*   - the scroll-region rewrite of a flush as a pure function, checked    *)
(*     under SpecRewrite;                                                  *)
(*   - the session with terminal resizes and region tokens in the wrapped  *)
(*     process's output, checked under SpecGeom, and with full repaints,   *)
(*     checked under SpecRepaint;                                          *)
(*   - the output of a flush as a pure function (SpecFlushOut), the        *)
(*     session with a stdout that breaks or is no terminal (SpecPipe), the *)
(*     keyboard handler (SpecStdin) and the session with resizes and       *)
(*     terminating signals (SpecTeardown);                                 *)
(*   - drawFooter as a function of the terminal size (SpecFooter), the     *)
(*     session with bursts of chunks and resizes (SpecBurst) and with      *)
(*     coloured output and teardown (SpecFinal);                           *)
(* and of the stdout hook (src/unnamed/part_001):                          *)
(*   - stripBackgroundColors with its regular expressions, checked under   *)
(*     SpecHookStrip;                                                      *)
(*   - install, disable, the replaced process.stdout.write and the         *)
(*     periodic scrollback clear, checked under SpecHook;                  *)
(*   - the SIGWINCH debounce, checked under SpecHookResize.                *)
(***************************************************************************)
EXTENDS Integers, Sequences, FiniteSets, TLC

VARIABLES
    sgrIn,          \* the string handed to stripColors
    sgrRes,         \* results of successive stripColors passes over sgrIn
    now,            \* Date.now(), in ms
    outputBuffer,   \* chunks accumulated and not yet flushed
    flushTimer,     \* {deadline} of the pending flush timer, {} when null
    pendingDraw,    \* {deadline} of the pending footer redraw timer, or {}
    footerInterval, \* TRUE while the 2 s keep-alive interval is set
    exiting,        \* the wrapper's exiting flag
    startupCleared, \* the once-per-session clear+home prefix was written
    lastFullRenderTime, \* timestamp of the last full-repaint flush
    showFooter,     \* shouldShowFooter() at startup
    sshMode,        \* isSSH() at startup
    isMac,          \* process.platform === 'darwin'
    shouldStrip,    \* colour stripping enabled (config, env, not Terminal.app)
    ptySignal,      \* the signal last passed to ptyProcess.kill, or "none"
    exited,         \* process.exit() was called
    nextChunk,      \* id of the next chunk the wrapped process will emit
    lastDataTime,   \* arrival time of the latest chunk (0 = none yet)
    arrivals,       \* history: per chunk id, how and when it arrived
    written,        \* history: everything written to process.stdout, in order
    stdoutRows,     \* process.stdout.rows (0 = undefined)
    footerRows,     \* rows reserved for the footer: 3 with specmem, else 1
    ptyRows,        \* rows the PTY was last resized to
    resizeTimeout,  \* {deadline} of the SIGWINCH debounce timer, or {}
    sshDraw,        \* deadlines of the delayed drawFooter timers (SSH resize)
    resizes,        \* history: per resize notification, whether it opens a burst
    footerCfg,      \* CLAUDEFIX_NO_FOOTER=1, config.firstRun, config.footer
    lastResizeTime, \* history: time of the latest resize notification (0 = none)
    lastRepaintFlush, \* history: time of the latest flush of a full repaint
    rwIn,           \* the buffer and geometry handed to the region rewrite
    rwOut,          \* results of the region rewrite over rwIn
    stdoutWritable, \* process.stdout can still be written to
    stdoutError,    \* an 'error' event of process.stdout is queued
    crashed,        \* the wrapper died of an uncaught exception
    lost,           \* history: chunks handed to a write that failed
    stdinChunks,    \* history: the chunks read from process.stdin, in order
    ptyInput,       \* history: the chunks passed to ptyProcess.write, in order
    opened,         \* number of openWebsite() calls
    ftIn,           \* process.stdout.columns and rows handed to drawFooter
    ftOut,          \* what drawFooter wrote for ftIn
    hookLastResizeTime, \* the hook's lastResizeTime
    hookResizeTimeout,  \* {deadline} of the hook's resizeTimeout, or {}
    sigwinchHandlers,   \* number of SIGWINCH handlers registered via the hook
    sigwinchEvents,     \* history: times of the SIGWINCH signals received
    handlerRuns,        \* history: times at which the handlers were invoked
    hsIn,           \* the string handed to the hook's stripColors export
    hsOut,          \* results of stripBackgroundColors over hsIn
    hookCfg,        \* hook: config and environment (TERM, isTTY of the streams)
    installCalls,   \* history: number of install() calls
    installed,      \* hook: the installed flag
    originalWrite,  \* hook: "none" (null), "real" or "hook"
    stdoutWrite,    \* what process.stdout.write is: "real" or "hook"
    clearIntervals, \* hook: next deadlines of the periodic-clear intervals set
    onWraps,        \* hook: number of times process.on was wrapped
    renderCount,    \* hook: renderCount
    lastTypingTime, \* hook: lastTypingTime
    pendingClear,   \* hook: pendingClear
    deferTimer,     \* hook: {deadline} of the deferred-clear timer, or {}
    immediates,     \* hook: number of queued setImmediate clear callbacks
    hookWrites      \* history: the latest call of the real stdout write, if any

sgrVars == <<sgrIn, sgrRes>>
rwVars == <<rwIn, rwOut>>
geomVars == <<stdoutRows, footerRows, ptyRows, resizeTimeout, sshDraw,
              resizes, lastResizeTime, footerCfg>>
ioVars == <<stdoutWritable, stdoutError, crashed, lost>>
stdinVars == <<stdinChunks, ptyInput, opened>>
hsVars == <<hsIn, hsOut>>
ftVars == <<ftIn, ftOut>>
hrVars == <<hookLastResizeTime, hookResizeTimeout, sigwinchHandlers,
            sigwinchEvents, handlerRuns>>
hookVars == <<hookCfg, installCalls, installed, originalWrite, stdoutWrite, clearIntervals,
              onWraps, renderCount, lastTypingTime, pendingClear, deferTimer,
              immediates, hookWrites>>
extVars == <<stdinVars, hsVars, hookVars, ftVars, hrVars>>
schedVars == <<ioVars, now, outputBuffer, flushTimer, pendingDraw, footerInterval,
               exiting, startupCleared, lastFullRenderTime, showFooter,
               sshMode, isMac, shouldStrip, ptySignal, exited, nextChunk,
               lastDataTime, arrivals, written, lastRepaintFlush, geomVars>>
vars == <<sgrVars, rwVars, schedVars, extVars>>

----------------------------------------------------------------------------
(* Strings.  A string is a sequence of characters; a character is a        *)
(* one-character TLA+ string, ESC standing for \x1b.                       *)

ESC == "ESC"
Digits == {"0", "1", "2", "3", "4", "5", "6", "7", "8", "9"}
DigitChars == <<"0", "1", "2", "3", "4", "5", "6", "7", "8", "9">>
Undefined == <<"undefined">>      \* JS undefined: an out-of-range array read

DigitVal(c) == (CHOOSE n \in 1..10 : DigitChars[n] = c) - 1

\* parseInt(s, 10) for a non-empty string of decimal digits
RECURSIVE parseInt(_)
parseInt(s) ==
    IF Len(s) = 1 THEN DigitVal(s[1])
    ELSE 10 * parseInt(SubSeq(s, 1, Len(s) - 1)) + DigitVal(s[Len(s)])

\* body.split(';'): the pieces between separators, empty pieces included
RECURSIVE SplitFrom(_, _, _)
SplitFrom(body, i, cur) ==
    IF i > Len(body) THEN <<cur>>
    ELSE IF body[i] = ";" THEN <<cur>> \o SplitFrom(body, i + 1, <<>>)
    ELSE SplitFrom(body, i + 1, Append(cur, body[i]))

Split(body) == SplitFrom(body, 1, <<>>)

\* .filter(c => c !== '')
FilterNonEmpty(parts) == SelectSeq(parts, LAMBDA c : c # <<>>)

\* parts.join(';')
RECURSIVE Join(_)
Join(parts) ==
    IF Len(parts) = 0 THEN <<>>
    ELSE IF Len(parts) = 1 THEN parts[1]
    ELSE parts[1] \o <<";">> \o Join(Tail(parts))

\* `${n}`: an integer written out in decimal
RECURSIVE ToDigits(_)
ToDigits(n) ==
    IF n < 0 THEN <<"-">> \o ToDigits(0 - n)
    ELSE IF n < 10 THEN <<DigitChars[n + 1]>>
    ELSE ToDigits(n \div 10) \o <<DigitChars[(n % 10) + 1]>>

\* pat occurs in s at index i
MatchesAt(s, i, pat) ==
    /\ i + Len(pat) - 1 <= Len(s)
    /\ \A k \in 1..Len(pat) : s[i + k - 1] = pat[k]

\* s.replace(/pat/g, rep) for a literal pattern: left to right, matches do
\* not overlap and the replacement is not scanned again
RECURSIVE ReplaceAll(_, _, _)
ReplaceAll(s, pat, rep) ==
    IF Len(s) = 0 THEN <<>>
    ELSE IF MatchesAt(s, 1, pat)
    THEN rep \o ReplaceAll(SubSeq(s, Len(pat) + 1, Len(s)), pat, rep)
    ELSE <<s[1]>> \o ReplaceAll(Tail(s), pat, rep)

\* s.includes(pat)
Includes(s, pat) == \E i \in 1..Len(s) : MatchesAt(s, i, pat)

Max(a, b) == IF a >= b THEN a ELSE b

\* codes[k] of a JS array: undefined past the end (k is 1-based here)
At(codes, k) == IF k >= 1 /\ k <= Len(codes) THEN codes[k] ELSE Undefined

\* JS truthiness of an array element that is a string or undefined
Truthy(x) == x # Undefined /\ x # <<>>

----------------------------------------------------------------------------
(* stripColors (src/bin/claude-fixed.js:296-349)                           *)

\* a variant that also lets inverse (7) through
IsStyleOnOrInverse(code) == code = 1 \/ code = 3 \/ code = 4 \/ code = 7 \/ code = 9

IsStyleOn(code) == code = 1 \/ code = 3 \/ code = 4 \/ code = 9
IsStyleOff(code) == code = 22 \/ code = 23 \/ code = 24 \/ code = 29
IsStdFg(code) == code >= 30 /\ code <= 37
IsBrightFg(code) == code >= 90 /\ code <= 97
IsBg(code) == (code >= 40 /\ code <= 49) \/ (code >= 100 /\ code <= 107)
IsDimInvHidden(code) ==
    code = 2 \/ code = 7 \/ code = 8 \/ code = 27 \/ code = 28

\* a variant that forgets the colour index
Fg256PushNoIndex(codes, i) == <<<<"3", "8">>, <<"5">>>>

\* what the 38;5;X branch pushes
Fg256Push(codes, i) == <<<<"3", "8">>, <<"5">>, codes[i + 2]>>

\* what the 38;2;R;G;B branch pushes
FgTruePush(codes, i) ==
    <<<<"3", "8">>, <<"2">>, codes[i + 2], codes[i + 3], codes[i + 4]>>

\* the while loop over codes: i is the 1-based index, allowed the kept codes
RECURSIVE ScanCodes(_, _, _)
ScanCodes(codes, i, allowed) ==
    IF i > Len(codes) THEN allowed
    ELSE LET code == parseInt(codes[i]) IN
      IF code = 0 THEN ScanCodes(codes, i + 1, Append(allowed, <<"0">>))
      ELSE IF IsStyleOn(code) THEN
        ScanCodes(codes, i + 1, Append(allowed, codes[i]))
      ELSE IF IsStyleOff(code) THEN
        ScanCodes(codes, i + 1, Append(allowed, codes[i]))
      ELSE IF IsStdFg(code) THEN
        ScanCodes(codes, i + 1, Append(allowed, codes[i]))
      ELSE IF code = 39 THEN
        ScanCodes(codes, i + 1, Append(allowed, <<"3", "9">>))
      ELSE IF IsBrightFg(code) THEN
        ScanCodes(codes, i + 1, Append(allowed, codes[i]))
      ELSE IF code = 38 /\ At(codes, i + 1) = <<"5">>
                        /\ Truthy(At(codes, i + 2)) THEN
        ScanCodes(codes, i + 3, allowed \o Fg256Push(codes, i))
      ELSE IF code = 38 /\ At(codes, i + 1) = <<"2">>
                        /\ Truthy(At(codes, i + 4)) THEN
        ScanCodes(codes, i + 5, allowed \o FgTruePush(codes, i))
      ELSE IF IsBg(code) THEN ScanCodes(codes, i + 1, allowed)
      ELSE IF code = 48 /\ At(codes, i + 1) = <<"5">> THEN
        ScanCodes(codes, i + 3, allowed)
      ELSE IF code = 48 /\ At(codes, i + 1) = <<"2">> THEN
        ScanCodes(codes, i + 5, allowed)
      ELSE IF IsDimInvHidden(code) THEN ScanCodes(codes, i + 1, allowed)
      ELSE ScanCodes(codes, i + 1, allowed)

\* a variant without the empty check
RenderAllowedAlways(allowed) == <<ESC, "[">> \o Join(allowed) \o <<"m">>

\* the two returns that follow the loop
RenderAllowed(allowed) ==
    IF Len(allowed) = 0 THEN <<>>
    ELSE <<ESC, "[">> \o Join(allowed) \o <<"m">>

\* the replace callback: match is one \x1b[ ... m token
StripMatch(match) ==
    LET codes == FilterNonEmpty(Split(SubSeq(match, 3, Len(match) - 1)))
    IN IF Len(codes) = 0 THEN <<ESC, "[", "0", "m">>
       ELSE RenderAllowed(ScanCodes(codes, 1, <<>>))

\* /\x1b\[[0-9;]*m/ : end index of the match that starts at s[1], 0 if none
RECURSIVE ParamRunEnd(_, _)
ParamRunEnd(s, j) ==
    IF j <= Len(s) /\ s[j] \in (Digits \cup {";"})
    THEN ParamRunEnd(s, j + 1) ELSE j

SgrMatchEnd(s) ==
    IF Len(s) >= 3 /\ s[1] = ESC /\ s[2] = "["
    THEN LET j == ParamRunEnd(s, 3)
         IN IF j <= Len(s) /\ s[j] = "m" THEN j ELSE 0
    ELSE 0

\* str.replace(/\x1b\[[0-9;]*m/g, callback)
RECURSIVE stripColors(_)
stripColors(str) ==
    IF Len(str) = 0 THEN <<>>
    ELSE LET e == SgrMatchEnd(str) IN
      IF e > 0
      THEN StripMatch(SubSeq(str, 1, e)) \o stripColors(SubSeq(str, e + 1, Len(str)))
      ELSE <<str[1]>> \o stripColors(Tail(str))

----------------------------------------------------------------------------
(* The SGR sanitizer as a state machine: a token is drawn, then stripColors *)
(* is applied to it and once more to its own result.                        *)

MaxItems == 3     \* a token is the concatenation of at most MaxItems items
SgrPasses == 2    \* stripColors passes per token

\* Parameter runs a token is assembled from: single parameters (an empty one
\* and leading zeros included) and whole or truncated extended-colour groups.
ParamItems ==
    { << <<>> >>, << <<"0">> >>, << <<"0", "0">> >>, << <<"1">> >>,
      << <<"2">> >>, << <<"5">> >>, << <<"7">> >>, << <<"3", "1">> >>,
      << <<"3", "8">> >>, << <<"4", "8">> >>, << <<"1", "0", "0">> >>,
      << <<"3", "8">>, <<"5">>, <<"1", "9", "6">> >>,
      << <<"3", "8">>, <<"2">>, <<"1">>, <<"2">>, <<"7">> >>,
      << <<"4", "8">>, <<"5">>, <<"3", "1">> >>,
      << <<"4", "8">>, <<"5">>, <<"2", "3", "6">> >>,
      << <<"4", "8">>, <<"2">>, <<"1">>, <<"4">>, <<"7">> >> }

RECURSIVE Flatten(_)
Flatten(items) ==
    IF Len(items) = 0 THEN <<>> ELSE Head(items) \o Flatten(Tail(items))

ItemLists == UNION { [1..n -> ParamItems] : n \in 0..MaxItems }

\* CSI <params> m, the parameters written out and joined by ';'
Token(params) == <<ESC, "[">> \o Join(params) \o <<"m">>

Tokens == { Token(Flatten(l)) : l \in ItemLists }

\* the parameter strings of a well-formed token, as written
ParamsOf(tok) == Split(SubSeq(tok, 3, Len(tok) - 1))

\* no keyboard input was read
NoStdin == stdinChunks = <<>> /\ ptyInput = <<>> /\ opened = 0

\* the hook's stripColors export is not called
NoHookStrip == hsIn = <<>> /\ hsOut = <<>>

\* the stdout hook is not loaded
NoHook ==
    /\ hookCfg = [disabled |-> TRUE, stripBgColors |-> TRUE,
                  supported |-> TRUE, stdinTTY |-> TRUE, stdoutTTY |-> TRUE,
                  clearAfterRenders |-> 0]
    /\ installCalls = 0
    /\ installed = FALSE /\ originalWrite = "none" /\ stdoutWrite = "real"
    /\ clearIntervals = <<>> /\ onWraps = 0 /\ renderCount = 0
    /\ lastTypingTime = 0 /\ pendingClear = FALSE /\ deferTimer = {}
    /\ immediates = 0 /\ hookWrites = <<>>

\* drawFooter is not called on its own
NoFooterLine == ftIn = <<>> /\ ftOut = <<>>

\* no SIGWINCH handler goes through the hook's process.on
NoHookResize ==
    /\ hookLastResizeTime = 0 /\ hookResizeTimeout = {}
    /\ sigwinchHandlers = 0 /\ sigwinchEvents = <<>> /\ handlerRuns = <<>>

NoExt == NoStdin /\ NoHookStrip /\ NoHook /\ NoFooterLine /\ NoHookResize

\* no wrapper session is running
NoWrapper ==
    /\ outputBuffer = <<>> /\ flushTimer = {} /\ pendingDraw = {}
    /\ footerInterval = FALSE /\ exiting = FALSE /\ startupCleared = FALSE
    /\ lastFullRenderTime = 0 /\ showFooter = FALSE /\ sshMode = FALSE
    /\ isMac = FALSE /\ shouldStrip = FALSE /\ ptySignal = "none"
    /\ exited = TRUE /\ nextChunk = 1 /\ lastDataTime = 0
    /\ arrivals = <<>> /\ written = <<>>
    /\ stdoutRows = 0 /\ footerRows = 1 /\ ptyRows = 0
    /\ resizeTimeout = {} /\ sshDraw = {} /\ resizes = <<>>
    /\ lastResizeTime = 0 /\ lastRepaintFlush = 0
    /\ footerCfg = [noFooterEnv |-> FALSE, firstRun |-> TRUE, footer |-> TRUE]
    /\ stdoutWritable = TRUE /\ stdoutError = FALSE /\ crashed = FALSE
    /\ lost = <<>>

\* stripColors is called on its own here
NoSession == NoExt /\ now = 0 /\ NoWrapper

InitSGR ==
    /\ sgrIn \in Tokens
    /\ sgrRes = <<>>
    /\ rwIn = <<>> /\ rwOut = <<>>
    /\ NoSession

\* one more call of stripColors: on the token, then on the previous result
ApplyStrip ==
    /\ Len(sgrRes) < SgrPasses
    /\ sgrRes' = Append(sgrRes,
                        stripColors(IF sgrRes = <<>> THEN sgrIn
                                    ELSE sgrRes[Len(sgrRes)]))
    /\ UNCHANGED <<sgrIn, rwVars, schedVars, extVars>>

NextSGR == ApplyStrip

SpecSGR == InitSGR /\ [][NextSGR]_vars

----------------------------------------------------------------------------
(* Reading a token the way a terminal does, for stating the claims: the    *)
(* parameters as integers, grouped into standalone codes and the extended  *)
(* colour groups 38;5;N, 38;2;R;G;B, 48;5;N, 48;2;R;G;B.                    *)

ResetToken == <<ESC, "[", "0", "m">>

\* a string that is ESC [ p1 ; ... ; pn m with n >= 1 and every pi digits
IsWellFormedToken(str) ==
    /\ Len(str) >= 4
    /\ str[1] = ESC /\ str[2] = "[" /\ str[Len(str)] = "m"
    /\ LET ps == ParamsOf(str)
       IN \A k \in 1..Len(ps) :
            Len(ps[k]) >= 1 /\ \A d \in 1..Len(ps[k]) : ps[k][d] \in Digits

\* the integer parameters of a token, empty parameters skipped; none for ''
IntsOf(str) ==
    IF str = <<>> THEN <<>>
    ELSE LET ps == FilterNonEmpty(ParamsOf(str))
         IN [k \in 1..Len(ps) |-> parseInt(ps[k])]

RECURSIVE Elements(_)
Elements(ints) ==
    IF Len(ints) = 0 THEN <<>>
    ELSE IF ints[1] = 38 \/ ints[1] = 48 THEN
      LET kind == IF ints[1] = 38 THEN "fg" ELSE "bg" IN
      IF Len(ints) >= 3 /\ ints[2] = 5 THEN
        <<[kind |-> kind, vals |-> SubSeq(ints, 1, 3)]>>
            \o Elements(SubSeq(ints, 4, Len(ints)))
      ELSE IF Len(ints) >= 5 /\ ints[2] = 2 THEN
        <<[kind |-> kind, vals |-> SubSeq(ints, 1, 5)]>>
            \o Elements(SubSeq(ints, 6, Len(ints)))
      ELSE <<[kind |-> "truncated", vals |-> ints]>>
    ELSE <<[kind |-> "code", vals |-> <<ints[1]>>]>> \o Elements(Tail(ints))

HasKind(els, kind) == \E k \in 1..Len(els) : els[k].kind = kind

BannedCodes == (40..49) \cup (100..107) \cup {2, 7, 8, 27, 28}
AllowedCodes ==
    {0, 1, 3, 4, 9, 22, 23, 24, 29, 39} \cup (30..37) \cup (90..97)

\* the elements the sanitizer is to keep, written out as integers
RECURSIVE KeptInts(_)
KeptInts(els) ==
    IF Len(els) = 0 THEN <<>>
    ELSE (IF els[1].kind = "fg"
             \/ (els[1].kind = "code" /\ els[1].vals[1] \in AllowedCodes)
          THEN els[1].vals ELSE <<>>) \o KeptInts(Tail(els))

InEls == Elements(IntsOf(sgrIn))
FirstOut == sgrRes[1]

\* C1: the result of stripColors holds no background code (40-49, 100-107)
\* and no dim/inverse/hidden code (2, 7, 8, 27, 28) as a standalone
\* rendition code; such a number occurs only inside a kept 38;5;N or
\* 38;2;R;G;B group.
C1_NoBannedStandalone ==
    \A p \in 1..Len(sgrRes) :
        LET els == Elements(IntsOf(sgrRes[p]))
        IN \A k \in 1..Len(els) :
             \/ els[k].kind = "fg"
             \/ els[k].kind = "code" /\ els[k].vals[1] \notin BannedCodes

\* an input with a standalone inverse code and a truecolor foreground whose
\* B argument is 7: the 7 of the group is all that is left of the sevens
C1_Witness ==
    /\ Len(sgrRes) >= 1
    /\ \E k \in 1..Len(InEls) : InEls[k].kind = "code" /\ InEls[k].vals = <<7>>
    /\ HasKind(InEls, "fg")
    /\ \E k \in 1..Len(IntsOf(FirstOut)) : IntsOf(FirstOut)[k] = 7

OnlyAllowed(str) ==
    LET els == Elements(IntsOf(str))
    IN \A k \in 1..Len(els) :
         \/ els[k].kind = "fg"
         \/ els[k].kind = "code" /\ els[k].vals[1] \in AllowedCodes

\* C2: on a token built only from allowed codes and complete foreground
\* groups, a second stripColors pass changes nothing:
\* stripColors(stripColors(x)) = stripColors(x).
C2_Idempotent ==
    (OnlyAllowed(sgrIn) /\ Len(sgrRes) >= 2) =>
        \A p \in 2..Len(sgrRes) : sgrRes[p] = sgrRes[1]

\* an allowed-only token with a 256-colour group that the first pass rewrote
\* (a leading-zero reset) and the second pass left alone
C2_Witness ==
    /\ Len(sgrRes) = 2
    /\ OnlyAllowed(sgrIn)
    /\ HasKind(InEls, "fg")
    /\ FirstOut # sgrIn
    /\ FirstOut # <<>>

\* C3 as claimed: the output parameters are exactly the allowed codes and
\* the complete foreground groups of the input, in order, groups whole.
\* (Stated for tokens with at least one parameter and no truncated group.)
C3_KeepsExactlyAllowed ==
    (Len(sgrRes) >= 1 /\ Len(InEls) >= 1 /\ ~HasKind(InEls, "truncated")) =>
        IntsOf(FirstOut) = KeptInts(InEls)

\* C4 as claimed: a token made only of extended background groups
\* (48;5;N, 48;2;R;G;B) leaves nothing: every parameter of each group is
\* consumed with its group and none comes back as a code of its own.
C4_BgGroupDroppedWhole ==
    (/\ Len(sgrRes) >= 1
     /\ Len(InEls) >= 1
     /\ \A k \in 1..Len(InEls) : InEls[k].kind = "bg") =>
        FirstOut = <<>>

\* C5 as claimed: a token holding a truncated extended-colour group is
\* returned unmodified.
C5_TruncatedPassedThrough ==
    (Len(sgrRes) >= 1 /\ HasKind(InEls, "truncated")) => FirstOut = sgrIn

\* C6: the result is the empty string, or a well-formed CSI <list> m token;
\* it is the canonical reset when the token has no parameter or only a 0,
\* and it is empty only when the token had parameters (CSI 7 m gives '').
C6_OutputShape ==
    Len(sgrRes) >= 1 =>
        LET codes == FilterNonEmpty(ParamsOf(sgrIn)) IN
        /\ FirstOut = <<>> \/ IsWellFormedToken(FirstOut)
        /\ (Len(codes) = 0 \/ (Len(codes) = 1 /\ parseInt(codes[1]) = 0))
               => FirstOut = ResetToken
        /\ FirstOut = <<>> => Len(codes) >= 1
        /\ sgrIn = Token(<< <<"7">> >>) => FirstOut = <<>>

\* CSI 7 m was sanitized to the empty string
C6_Witness ==
    /\ Len(sgrRes) >= 1
    /\ sgrIn = Token(<< <<"7">> >>)
    /\ FirstOut = <<>>

----------------------------------------------------------------------------
(* The PTY session (src/bin/claude-fixed.js:705-1145): output buffering,   *)
(* the flush timer, the debounced footer redraw, the scroll region, the    *)
(* resize handlers and teardown.                                           *)
(* Time is in ms and advances TickMs at a time.  A pending setTimeout is   *)
(* the set holding its deadline; a timer that is due fires before the      *)
(* clock moves on, so a timer fires at the first instant at or after its   *)
(* deadline.  Chunks of the wrapped process are numbered 1, 2, ... in the  *)
(* order the PTY emits them; arrivals[c].data holds the bytes of chunk c.  *)

FLUSH_DELAY_MS == 16
COALESCE_DELAY_MS == 80
DEBOUNCE_MS == 32
RecentFullRenderMs == 200
RESIZE_DEBOUNCE_MS == 50
SshSettleMs == 50
DefaultRows == 24

StartTime == 1000   \* Date.now() when the session starts (epoch ms, > 200)
TickMs == 8         \* resolution of the clock: time advances TickMs at a time
MaxElapsed == 48    \* the session is followed for MaxElapsed ms
MaxChunks == 3      \* chunks the wrapped process emits
MaxSignals == 2     \* terminating signals delivered to the wrapper
MaxKeepAlive == 1   \* keep-alive interval ticks followed

Signals == {"SIGINT", "SIGTERM", "SIGHUP"}

\* the escape sequences the wrapper writes or looks for
RegionReset == <<ESC, "[", "r">>
SaveCursor == <<ESC, "7">>
RestoreCursor == <<ESC, "8">>
ClearScreen == <<ESC, "[", "2", "J">>
ClearScrollback == <<ESC, "[", "3", "J">>
CursorHome == <<ESC, "[", "H">>
SetRegion(bottom) == <<ESC, "[", "1", ";">> \o ToDigits(bottom) \o <<"r">>
MoveToRow(row) == <<ESC, "[">> \o ToDigits(row) \o <<";", "1", "H">>

\* process.stdout.rows || 24
TermRowsOf(rows) == IF rows = 0 THEN DefaultRows ELSE rows
TermRows == TermRowsOf(stdoutRows)

\* a variant without the lower clamp
RowsMinusFooter(rows, fRows) == rows - fRows

\* setupScrollRegion's contentRows = Math.max(1, rows - footerRows)
RegionContentRows(rows, fRows) == Max(1, rows - fRows)

\* contentRows(), as processAndFlush calls it
contentRows(rows, fRows) == Max(1, TermRowsOf(rows) - fRows)

\* shouldShowFooter()
shouldShowFooter(cfg) ==
    IF cfg.noFooterEnv THEN FALSE
    ELSE IF cfg.firstRun THEN TRUE
    ELSE cfg.footer

FooterCfgs == [noFooterEnv : BOOLEAN, firstRun : BOOLEAN, footer : BOOLEAN]

\* one process.stdout.write: what it carries, which handler issued it, the
\* terminal's row count and the number of buffered chunks when it was issued
Write(kind, by, chunks, data) ==
    [kind |-> kind, by |-> by, chunks |-> chunks, data |-> data,
     rows |-> TermRows, pending |-> Len(outputBuffer),
     stripped |-> FALSE, regionRewritten |-> FALSE,
     scrollbackInjected |-> FALSE, clearPrefix |-> FALSE]

NumWrites(kinds) == Cardinality({k \in 1..Len(written) : written[k].kind \in kinds})
NumBy(by) == Cardinality({k \in 1..Len(written) : written[k].by = by})

\* setupScrollRegion() with process.stdout.rows = rows: the sequence it
\* writes, if any
SetupScrollRegion(rows, by) ==
    IF sshMode \/ ~showFooter THEN <<>>
    ELSE <<[Write("region", by, <<>>,
                  RegionReset \o SaveCursor
                  \o SetRegion(RegionContentRows(TermRowsOf(rows), footerRows))
                  \o RestoreCursor)
            EXCEPT !.rows = TermRowsOf(rows)]>>

\* setupScrollRegion(): the row count it resizes the PTY to
PtyResize(rows) ==
    IF sshMode \/ ~showFooter THEN TermRowsOf(rows)
    ELSE RegionContentRows(TermRowsOf(rows), footerRows)

\* a variant of drawFooter that draws in remote sessions too
DrawFooterAlways(rows, by) ==
    <<[Write("footer", by, <<>>,
             SaveCursor \o MoveToRow(TermRowsOf(rows)) \o <<"FOOTER">>
             \o RestoreCursor)
       EXCEPT !.rows = TermRowsOf(rows)]>>

\* drawFooter() with process.stdout.rows = rows: the row it writes, if any;
\* "FOOTER" stands for the padded footer line
DrawFooter(rows, by) ==
    IF sshMode THEN <<>>
    ELSE <<[Write("footer", by, <<>>,
                  SaveCursor \o MoveToRow(TermRowsOf(rows)) \o <<"FOOTER">>
                  \o RestoreCursor)
            EXCEPT !.rows = TermRowsOf(rows)]>>

\* a variant that lets an earlier pending redraw stand next to the new one
ScheduleFooterDrawKeepEarlier(pending, t) == pending \cup {t + DEBOUNCE_MS}

\* scheduleFooterDraw(): clear the pending redraw, arm a new one
ScheduleFooterDraw(pending, t) == {t + DEBOUNCE_MS}

\* a variant that queues the new chunk in front
AccumulateFront(buffer, data) == <<data>> \o buffer

\* outputBuffer += data
Accumulate(buffer, data) == Append(buffer, data)

\* the delay onData picks
FlushDelay ==
    IF now - lastFullRenderTime < RecentFullRenderMs
    THEN COALESCE_DELAY_MS ELSE FLUSH_DELAY_MS

\* a variant that cancels a pending timer without arming a new one
ArmFlushCancelOnly(timer, t, delay) ==
    IF timer # {} THEN {} ELSE {t + delay}

\* a variant that leaves a pending timer running instead of replacing it
ArmFlushKeepPending(timer, t, delay) ==
    IF timer # {} THEN timer ELSE {t + delay}

\* if (flushTimer) clearTimeout(flushTimer); flushTimer = setTimeout(..., delay)
ArmFlush(timer, t, delay) == {t + delay}

\* the bytes of the buffered chunks, concatenated in buffer order
RECURSIVE RawOf(_)
RawOf(buffer) ==
    IF Len(buffer) = 0 THEN <<>>
    ELSE arrivals[Head(buffer)].data \o RawOf(Tail(buffer))

\* a variant of the rewrite that leaves a bare region reset alone
RewriteFullHeightOnly(output, rows, fRows) ==
    ReplaceAll(output, SetRegion(TermRowsOf(rows)),
               SetRegion(contentRows(rows, fRows)))

\* the region rewrite of processAndFlush: every bare region reset, then
\* every region token of the terminal's full height, becomes the token of
\* the content region
RewriteRegion(output, rows, fRows) ==
    ReplaceAll(ReplaceAll(output, RegionReset,
                          SetRegion(contentRows(rows, fRows))),
               SetRegion(TermRowsOf(rows)),
               SetRegion(contentRows(rows, fRows)))

\* s.replace(pat, rep) for a literal pattern: the first match only
RECURSIVE ReplaceFirst(_, _, _)
ReplaceFirst(s, pat, rep) ==
    IF Len(s) = 0 THEN <<>>
    ELSE IF MatchesAt(s, 1, pat)
    THEN rep \o SubSeq(s, Len(pat) + 1, Len(s))
    ELSE <<s[1]>> \o ReplaceFirst(Tail(s), pat, rep)

\* a variant that injects after the first clear-screen only
InjectAfterFirstOnly(output) ==
    ReplaceFirst(output, ClearScreen, ClearScreen \o ClearScrollback)

\* the scrollback clear injected after every clear-screen
InjectScrollbackClear(output) ==
    IF Includes(output, ClearScreen)
    THEN ReplaceAll(output, ClearScreen, ClearScreen \o ClearScrollback)
    ELSE output

\* a variant that prepends on every flush
ClearPrefixAlways(cleared) == ~isMac

\* whether this flush prepends the clear+home sequence
ClearPrefixDue(cleared) == ~isMac /\ ~cleared

\* the bytes processAndFlush writes for the bytes it took from the buffer
FlushOutput(raw) ==
    LET stripped == IF shouldStrip THEN stripColors(raw) ELSE raw
        rewritten == IF showFooter /\ ~sshMode
                     THEN RewriteRegion(stripped, stdoutRows, footerRows)
                     ELSE stripped
        injected == IF ~isMac THEN InjectScrollbackClear(rewritten)
                    ELSE rewritten
    IN  IF ClearPrefixDue(startupCleared)
        THEN ClearScreen \o ClearScrollback \o CursorHome \o injected
        ELSE injected

\* what processAndFlush writes for the buffer it took
FlushWrite(buffer) ==
    [Write("flush", "flush", buffer, FlushOutput(RawOf(buffer)))
     EXCEPT !.stripped = shouldStrip,
            !.regionRewritten = (showFooter /\ ~sshMode),
            !.scrollbackInjected = ~isMac,
            !.clearPrefix = ClearPrefixDue(startupCleared)]

\* a variant that prints the banner before the rest
TeardownWritesBannerFirst(buffer, by) ==
    <<Write("banner", by, <<>>, <<"BANNER">>)>>
    \o (IF buffer # <<>> THEN <<Write("final", by, buffer, RawOf(buffer))>>
        ELSE <<>>)
    \o (IF ~sshMode /\ showFooter
        THEN <<Write("reset", by, <<>>,
                     RegionReset \o ClearScreen \o ClearScrollback
                     \o CursorHome)>>
        ELSE <<>>)

\* the writes shared by onExit and cleanupAndKill: the buffer as it is, the
\* region reset with screen and scrollback clear, the exit banner ("BANNER")
TeardownWrites(buffer, by) ==
    (IF buffer # <<>> THEN <<Write("final", by, buffer, RawOf(buffer))>>
     ELSE <<>>)
    \o (IF ~sshMode /\ showFooter
        THEN <<Write("reset", by, <<>>,
                     RegionReset \o ClearScreen \o ClearScrollback
                     \o CursorHome)>>
        ELSE <<>>)
    \o <<Write("banner", by, <<>>, <<"BANNER">>)>>

\* the chunk ids carried by the writes ws, in order
RECURSIVE WriteChunks(_)
WriteChunks(ws) ==
    IF Len(ws) = 0 THEN <<>> ELSE Head(ws).chunks \o WriteChunks(Tail(ws))

\* the chunks carried by the writes ws, each with the kind of its write
RECURSIVE LostBy(_)
LostBy(ws) ==
    IF Len(ws) = 0 THEN <<>>
    ELSE [j \in 1..Len(Head(ws).chunks) |->
             [chunk |-> Head(ws).chunks[j], kind |-> Head(ws).kind]]
         \o LostBy(Tail(ws))

\* process.stdout.write of each of ws in turn.  On a stream that cannot be
\* written to nothing is written and the stream queues an 'error' event.
Emit(ws) ==
    /\ written' = IF stdoutWritable THEN written \o ws ELSE written
    /\ stdoutError' = (stdoutError \/ (~stdoutWritable /\ ws # <<>>))
    /\ lost' = IF stdoutWritable THEN lost ELSE lost \o LostBy(ws)
    /\ UNCHANGED <<stdoutWritable, crashed>>

\* what the wrapped process emits in one chunk: plain text, a bare region
\* reset, a region token spanning the window the PTY currently reports, a
\* full repaint (cursor home, clear screen, the screen's text), or text on a
\* red background
ChunkData(kind) ==
    CASE kind = "text" -> <<"x">>
      [] kind = "reset" -> RegionReset
      [] kind = "ptyRegion" -> SetRegion(ptyRows)
      [] kind = "repaint" -> CursorHome \o ClearScreen \o <<"x">>
      [] kind = "bg" -> <<ESC, "[", "4", "1", "m", "x">>

\* the state after construction: the PTY spawned with the terminal's size,
\* setupScrollRegion(), the first drawFooter(), the keep-alive interval,
\* empty buffer, no timer
SessionInit(cfgs, rowSet, fRowSet, macs, strips) ==
    /\ NoExt
    /\ sgrIn = <<>> /\ sgrRes = <<>>
    /\ rwIn = <<>> /\ rwOut = <<>>
    /\ now = StartTime
    /\ footerCfg \in cfgs
    /\ showFooter = shouldShowFooter(footerCfg)
    /\ sshMode \in BOOLEAN
    /\ isMac \in macs /\ shouldStrip \in strips
    /\ stdoutRows \in rowSet /\ footerRows \in fRowSet
    /\ outputBuffer = <<>> /\ flushTimer = {} /\ pendingDraw = {}
    /\ written = SetupScrollRegion(stdoutRows, "start")
                 \o (IF ~sshMode /\ showFooter
                     THEN DrawFooter(stdoutRows, "start") ELSE <<>>)
    /\ ptyRows = PtyResize(stdoutRows)
    /\ footerInterval = (~sshMode /\ showFooter)
    /\ exiting = FALSE /\ startupCleared = FALSE /\ lastFullRenderTime = 0
    /\ ptySignal = "none" /\ exited = FALSE
    /\ nextChunk = 1 /\ lastDataTime = 0 /\ arrivals = <<>>
    /\ resizeTimeout = {} /\ sshDraw = {} /\ resizes = <<>>
    /\ lastResizeTime = 0 /\ lastRepaintFlush = 0
    /\ stdoutWritable = TRUE /\ stdoutError = FALSE /\ crashed = FALSE
    /\ lost = <<>>

\* a first run with the default configuration, CLAUDEFIX_NO_FOOTER set or
\* not, on a 24-row terminal without specmem
Init ==
    SessionInit({c \in FooterCfgs : c.firstRun /\ c.footer},
                {DefaultRows}, {1}, BOOLEAN, BOOLEAN)

\* ptyProcess.onData for a chunk of one of the given kinds
OnData(limit, kinds) ==
    /\ ~exited
    /\ nextChunk <= limit
    /\ nextChunk' = nextChunk + 1
    /\ \E kind \in kinds :
        IF exiting
        THEN /\ arrivals' = Append(arrivals,
                   [accepted |-> FALSE, close |-> FALSE, flushes |-> 0,
                    kind |-> kind, data |-> ChunkData(kind), delay |-> 0,
                    recentRepaint |-> FALSE])
             /\ UNCHANGED <<outputBuffer, flushTimer, lastDataTime>>
        ELSE /\ outputBuffer' = Accumulate(outputBuffer, nextChunk)
             /\ flushTimer' = ArmFlush(flushTimer, now, FlushDelay)
             /\ lastDataTime' = now
             /\ arrivals' = Append(arrivals,
                   [accepted |-> TRUE,
                    close |-> (lastDataTime # 0
                               /\ now - lastDataTime < FLUSH_DELAY_MS),
                    flushes |-> NumWrites({"flush", "final"}),
                    kind |-> kind, data |-> ChunkData(kind),
                    delay |-> FlushDelay,
                    recentRepaint |->
                        (lastRepaintFlush # 0
                         /\ now - lastRepaintFlush < RecentFullRenderMs)])
    /\ UNCHANGED <<sgrVars, rwVars, extVars, geomVars, ioVars, now, pendingDraw,
                   footerInterval, exiting, startupCleared,
                   lastFullRenderTime, showFooter, sshMode, isMac,
                   shouldStrip, ptySignal, exited, written, lastRepaintFlush>>

Data == OnData(MaxChunks, {"text"})

\* the flush timer fires: processAndFlush
ProcessAndFlush ==
    /\ ~exited
    /\ \E d \in flushTimer : d <= now
    /\ flushTimer' = {}
    /\ IF outputBuffer = <<>> \/ exiting
       THEN UNCHANGED <<outputBuffer, startupCleared, written, pendingDraw,
                        lastRepaintFlush, ioVars>>
       ELSE /\ outputBuffer' = <<>>
            /\ startupCleared' = (startupCleared \/ ~isMac)
            /\ Emit(<<FlushWrite(outputBuffer)>>)
            /\ pendingDraw' = IF showFooter
                              THEN ScheduleFooterDraw(pendingDraw, now)
                              ELSE pendingDraw
            /\ lastRepaintFlush' =
                   IF \E j \in 1..Len(outputBuffer) :
                          arrivals[outputBuffer[j]].kind = "repaint"
                   THEN now ELSE lastRepaintFlush
    /\ UNCHANGED <<sgrVars, rwVars, extVars, geomVars, now, footerInterval, exiting,
                   lastFullRenderTime, showFooter, sshMode, isMac,
                   shouldStrip, ptySignal, exited, nextChunk, lastDataTime,
                   arrivals>>

\* a pendingDraw timer fires (scheduleFooterDraw's callback)
FooterDrawFire ==
    /\ ~exited
    /\ \E d \in pendingDraw :
        /\ d <= now
        /\ pendingDraw' = pendingDraw \ {d}
    /\ Emit(DrawFooter(stdoutRows, "debounce"))
    /\ UNCHANGED <<sgrVars, rwVars, extVars, geomVars, now, outputBuffer, flushTimer,
                   footerInterval, exiting, startupCleared,
                   lastFullRenderTime, showFooter, sshMode, isMac,
                   shouldStrip, ptySignal, exited, nextChunk, lastDataTime,
                   arrivals, lastRepaintFlush>>

\* the keep-alive interval fires: setInterval(drawFooter, 2000).  Its phase
\* against the output is arbitrary, so it may fire at any instant.
FooterKeepAlive ==
    /\ ~exited
    /\ footerInterval
    /\ NumBy("interval") < MaxKeepAlive
    /\ Emit(DrawFooter(stdoutRows, "interval"))
    /\ UNCHANGED <<sgrVars, rwVars, extVars, geomVars, now, outputBuffer, flushTimer,
                   pendingDraw, footerInterval, exiting, startupCleared,
                   lastFullRenderTime, showFooter, sshMode, isMac,
                   shouldStrip, ptySignal, exited, nextChunk, lastDataTime,
                   arrivals, lastRepaintFlush>>

\* SIGINT / SIGTERM / SIGHUP: cleanupAndKill(signal)
CleanupAndKill(signal) ==
    /\ ~exited
    /\ NumBy("signal") < MaxSignals
    /\ exiting' = TRUE
    /\ footerInterval' = FALSE
    /\ pendingDraw' = {}
    /\ flushTimer' = {}
    /\ Emit(TeardownWrites(outputBuffer, "signal"))
    /\ outputBuffer' = <<>>
    /\ ptySignal' = signal
    /\ UNCHANGED <<sgrVars, rwVars, extVars, geomVars, now, startupCleared,
                   lastFullRenderTime, showFooter, sshMode, isMac,
                   shouldStrip, exited, nextChunk, lastDataTime, arrivals,
                   lastRepaintFlush>>

\* ptyProcess.onExit: the wrapped process is gone, by itself or killed
OnExit ==
    /\ ~exited
    /\ exiting' = TRUE
    /\ footerInterval' = FALSE
    /\ pendingDraw' = {}
    /\ flushTimer' = {}
    /\ Emit(TeardownWrites(outputBuffer, "exit"))
    /\ outputBuffer' = <<>>
    /\ exited' = TRUE
    /\ UNCHANGED <<sgrVars, rwVars, extVars, geomVars, now, startupCleared,
                   lastFullRenderTime, showFooter, sshMode, isMac,
                   shouldStrip, ptySignal, nextChunk, lastDataTime, arrivals,
                   lastRepaintFlush>>

\* time passes, step ms at a time up to the horizon; timers that are due
\* fire first
Advance(step, horizon) ==
    /\ ~exited
    /\ now + step <= StartTime + horizon
    /\ \A d \in flushTimer \cup pendingDraw \cup resizeTimeout \cup sshDraw :
           d > now
    /\ ~stdoutError
    /\ now' = now + step
    /\ UNCHANGED <<sgrVars, rwVars, extVars, geomVars, ioVars, outputBuffer,
                   flushTimer, pendingDraw, footerInterval, exiting,
                   startupCleared, lastFullRenderTime, showFooter, sshMode,
                   isMac, shouldStrip, ptySignal, exited, nextChunk,
                   lastDataTime, arrivals, written, lastRepaintFlush>>

Tick == Advance(TickMs, MaxElapsed)

Next ==
    \/ Data
    \/ ProcessAndFlush
    \/ FooterDrawFire
    \/ FooterKeepAlive
    \/ \E signal \in Signals : CleanupAndKill(signal)
    \/ OnExit
    \/ Tick

Spec == Init /\ [][Next]_vars

----------------------------------------------------------------------------
(* Claims about the flush scheduler and teardown.                          *)

\* the writes that carry bytes of the wrapped process
CarriesChunks(w) == Len(w.chunks) >= 1
InWrite(c, w) == \E j \in 1..Len(w.chunks) : w.chunks[j] = c

\* all chunk ids in the order they reached process.stdout
RECURSIVE ChunksOf(_)
ChunksOf(ws) ==
    IF Len(ws) = 0 THEN <<>> ELSE Head(ws).chunks \o ChunksOf(Tail(ws))

WrittenChunks == ChunksOf(written)

\* chunk c arrived less than FLUSH_DELAY_MS after chunk c - 1
CloseToPrevious(c) ==
    c >= 2 /\ c <= Len(arrivals) /\ arrivals[c].accepted /\ arrivals[c].close

\* C7: chunks that arrive less than FLUSH_DELAY_MS (16 ms) apart form one
\* burst: no flush happens between two such chunks, and the burst goes out
\* in exactly one write, which carries its chunks together and in arrival
\* order.
C7_OneFlushPerBurst ==
    /\ \A c \in 1..Len(arrivals) :
         CloseToPrevious(c) =>
           /\ arrivals[c - 1].accepted
           /\ arrivals[c].flushes = arrivals[c - 1].flushes
           /\ \A k \in 1..Len(written) :
                InWrite(c, written[k]) <=> InWrite(c - 1, written[k])
    /\ \A k \in 1..Len(written) :
         \A j \in 1..Len(written[k].chunks) - 1 :
           written[k].chunks[j + 1] = written[k].chunks[j] + 1
    /\ \A c \in 1..Len(arrivals) :
         Cardinality({k \in 1..Len(written) : InWrite(c, written[k])}) <= 1

\* chunk 1 was flushed alone by the timer; chunks 2 and 3, less than 16 ms
\* apart, were then flushed together by a second timer flush
C7_Witness ==
    /\ Len(arrivals) >= 3
    /\ CloseToPrevious(3) /\ ~arrivals[2].close
    /\ \E k \in 1..Len(written) :
         written[k].kind = "flush" /\ written[k].chunks = <<1>>
    /\ \E k \in 1..Len(written) :
         written[k].kind = "flush" /\ written[k].chunks = <<2, 3>>

\* C8: across timer flushes and the teardown flush, chunks reach the real
\* output in the order the wrapped process emitted them.
C8_OrderPreserved ==
    \A i, j \in 1..Len(WrittenChunks) :
        i < j => WrittenChunks[i] < WrittenChunks[j]

\* a timer flush of two chunks was followed by a teardown flush of a third
C8_Witness ==
    /\ \E k \in 1..Len(written) :
         written[k].kind = "flush" /\ Len(written[k].chunks) >= 2
    /\ \E k \in 1..Len(written) : written[k].kind = "final"
    /\ Len(WrittenChunks) >= 3

\* C9: teardown cancels the flush and overlay timers, writes what is left
\* in the buffer, then the region reset, then the banner: once a banner is
\* out no timer is pending and the buffer is empty, every banner directly
\* follows the region reset (when a region was set) or else the teardown
\* flush, a teardown flush is directly followed by the reset or the banner,
\* and no write after a banner carries bytes of the wrapped process.
C9_TeardownOrder ==
    /\ NumWrites({"banner"}) >= 1 =>
         /\ exiting
         /\ flushTimer = {} /\ pendingDraw = {} /\ ~footerInterval
         /\ outputBuffer = <<>>
    /\ \A k \in 1..Len(written) :
         /\ written[k].kind = "banner" =>
              /\ (~sshMode /\ showFooter) =>
                   (k >= 2 /\ written[k - 1].kind = "reset"
                           /\ written[k - 1].by = written[k].by)
              /\ \A j \in 1..Len(written) :
                   j > k => ~CarriesChunks(written[j])
         /\ written[k].kind = "final" =>
              /\ k < Len(written)
              /\ written[k + 1].kind =
                   (IF ~sshMode /\ showFooter THEN "reset" ELSE "banner")
         /\ written[k].kind = "reset" =>
              (k < Len(written) /\ written[k + 1].kind = "banner")

\* a teardown with a footer and unflushed bytes: flush, reset, banner
C9_Witness ==
    /\ Len(written) >= 3
    /\ written[Len(written)].kind = "banner"
    /\ written[Len(written) - 1].kind = "reset"
    /\ written[Len(written) - 2].kind = "final"
    /\ Len(written[Len(written) - 2].chunks) >= 2

\* C10 as claimed: the teardown sequence (region reset, clears, banner)
\* runs at most once per session.
C10_TeardownAtMostOnce == NumWrites({"banner"}) <= 1

----------------------------------------------------------------------------
(* Claims about the startup clear, the overlay and the scroll region.      *)

ClearHomePrefix == ClearScreen \o ClearScrollback \o CursorHome

\* the write starts with clear screen, clear scrollback, cursor home
StartsWithClearHome(w) == MatchesAt(w.data, 1, ClearHomePrefix)

\* write k is the session's first timer-driven flush
IsFirstFlush(k) ==
    /\ written[k].kind = "flush"
    /\ \A j \in 1..(k - 1) : written[j].kind # "flush"

\* C20: off macOS the clear+home prefix is prepended to the first
\* timer-driven flush of the session and to no later one, so it is written
\* at most once and precedes every byte of the wrapped process that a
\* timer-driven flush writes; on macOS no flush carries it.
C20_ClearPrefixOnce ==
    \A k \in 1..Len(written) :
        written[k].kind = "flush" =>
            /\ StartsWithClearHome(written[k]) <=> (~isMac /\ IsFirstFlush(k))
            /\ written[k].clearPrefix <=> StartsWithClearHome(written[k])

\* off macOS, two timer-driven flushes have happened: the first carries the
\* prefix, the second does not
C20_Witness ==
    /\ ~isMac
    /\ \E j, k \in 1..Len(written) :
         /\ j < k
         /\ IsFirstFlush(j) /\ StartsWithClearHome(written[j])
         /\ written[k].kind = "flush" /\ ~StartsWithClearHome(written[k])

\* the overlay redraws written by the debounce timer after write k and
\* before the next timer-driven flush
RedrawsAfter(k) ==
    {j \in (k + 1)..Len(written) :
        /\ written[j].kind = "footer" /\ written[j].by = "debounce"
        /\ \A i \in (k + 1)..j : written[i].kind # "flush"}

IsLastFlush(k) ==
    /\ written[k].kind = "flush"
    /\ \A j \in (k + 1)..Len(written) : written[j].kind # "flush"

\* C17: in a local session with the overlay enabled, a debounced overlay
\* redraw is only written after the flush that scheduled it; at most one
\* redraw is pending at a time; a flush is followed by no debounced redraw
\* while its redraw is pending and, before the next flush, by at most one;
\* once the redraw timer of the latest flush has fired (and no teardown
\* cancelled it) that flush is followed by exactly one debounced redraw.
C17_FlushThenOneRedraw ==
    /\ Cardinality(pendingDraw) <= 1
    /\ pendingDraw # {} => \E k \in 1..Len(written) : written[k].kind = "flush"
    /\ \A j \in 1..Len(written) :
         (written[j].kind = "footer" /\ written[j].by = "debounce") =>
             \E k \in 1..(j - 1) : written[k].kind = "flush"
    /\ (showFooter /\ ~sshMode) =>
         \A k \in 1..Len(written) :
             written[k].kind = "flush" =>
                 /\ Cardinality(RedrawsAfter(k)) <= 1
                 /\ (IsLastFlush(k) /\ pendingDraw # {}) =>
                        RedrawsAfter(k) = {}
                 /\ (IsLastFlush(k) /\ pendingDraw = {} /\ ~exiting) =>
                        Cardinality(RedrawsAfter(k)) = 1

\* a burst of two chunks went out in one flush and its one redraw followed
C17_Witness ==
    /\ showFooter /\ ~sshMode /\ ~exiting
    /\ \E k \in 1..Len(written) :
         /\ IsLastFlush(k)
         /\ Len(written[k].chunks) >= 2
         /\ Cardinality(RedrawsAfter(k)) = 1

\* C18 as claimed: no overlay draw of the debounced redraw or of the
\* keep-alive interval is written while the output buffer holds unflushed
\* bytes of the wrapped process.
C18_DrawOnlyWhenSettled ==
    \A k \in 1..Len(written) :
        (written[k].kind = "footer"
         /\ written[k].by \in {"debounce", "interval"}) =>
            written[k].pending = 0

----------------------------------------------------------------------------
(* The session when the wrapped process also emits full repaints: a local  *)
(* or remote first run on Linux, 24 rows, no colour stripping.             *)

RepaintKinds == {"text", "repaint"}

InitRepaint ==
    SessionInit({c \in FooterCfgs : c.firstRun /\ c.footer /\ ~c.noFooterEnv},
                {DefaultRows}, {1}, {FALSE}, {FALSE})

DataRepaint == OnData(MaxChunks, RepaintKinds)

NextRepaint ==
    \/ DataRepaint
    \/ ProcessAndFlush
    \/ FooterDrawFire
    \/ FooterKeepAlive
    \/ \E signal \in Signals : CleanupAndKill(signal)
    \/ OnExit
    \/ Tick

SpecRepaint == InitRepaint /\ [][NextRepaint]_vars

\* C19 as claimed: a chunk's flush timer gets the extended delay exactly
\* when a flush carrying a full repaint happened less than the recency
\* threshold before the chunk arrived.
C19_ExtendedDelayAfterRepaint ==
    \A c \in 1..Len(arrivals) :
        arrivals[c].accepted =>
            (arrivals[c].delay = COALESCE_DELAY_MS <=> arrivals[c].recentRepaint)

----------------------------------------------------------------------------
(* The region rewrite of processAndFlush as a function of the buffer and   *)
(* the geometry.  The buffer is a sequence of whole pieces: a character of *)
(* text, a clear-screen, a bare region reset, or a region token 1;<b>.     *)

MaxRwItems == 2   \* pieces per buffer

\* process.stdout.rows at flush time (0 = undefined) and the bottoms of the
\* region tokens in the buffer
RwRows == {0, 1, 2, 24}
RwBottoms == {1, 2, 21, 23, 24}
RwFooterRows == {1, 3}

RwItems == {<<"x">>, ClearScreen, RegionReset} \cup {SetRegion(b) : b \in RwBottoms}
RwItemLists == UNION { [1..n -> RwItems] : n \in 0..MaxRwItems }

InitRewrite ==
    /\ rwIn \in [items : RwItemLists, rows : RwRows, footerRows : RwFooterRows]
    /\ rwOut = <<>>
    /\ sgrIn = <<>> /\ sgrRes = <<>>
    /\ NoSession

\* the rewrite step of one flush
ApplyRewrite ==
    /\ Len(rwOut) < 1
    /\ rwOut' = Append(rwOut, RewriteRegion(Flatten(rwIn.items), rwIn.rows,
                                            rwIn.footerRows))
    /\ UNCHANGED <<rwIn, sgrVars, schedVars, extVars>>

NextRewrite == ApplyRewrite

SpecRewrite == InitRewrite /\ [][NextRewrite]_vars

\* the terminal's row count and the content rows as the claims state them
ClaimTermRows == IF rwIn.rows = 0 THEN 24 ELSE rwIn.rows
ClaimContentRows == Max(1, ClaimTermRows - rwIn.footerRows)

\* the buffer with each piece that is in targets replaced by the region
\* token of the content rows and every other piece left as it is
RECURSIVE PiecewiseRewrite(_, _)
PiecewiseRewrite(items, targets) ==
    IF Len(items) = 0 THEN <<>>
    ELSE (IF Head(items) \in targets THEN SetRegion(ClaimContentRows)
          ELSE Head(items))
         \o PiecewiseRewrite(Tail(items), targets)

\* C12 as claimed: the rewrite replaces every region token
\* CSI 1;<terminalRows> r by CSI 1;<contentRows> r and leaves every other
\* byte of the buffer in place.
C12_OnlyFullHeightTokens ==
    Len(rwOut) >= 1 =>
        rwOut[1] = PiecewiseRewrite(rwIn.items, {SetRegion(ClaimTermRows)})

\* C12, amended: the rewrite replaces every region token
\* CSI 1;<terminalRows> r and every bare region reset CSI r by
\* CSI 1;<contentRows> r and leaves every other byte of the buffer in
\* place; with 24 rows and a one-row footer CSI 1;24 r becomes CSI 1;23 r.
C12_FullHeightAndBareResets ==
    Len(rwOut) >= 1 =>
        /\ rwOut[1] = PiecewiseRewrite(rwIn.items,
                                       {SetRegion(ClaimTermRows), RegionReset})
        /\ (rwIn.rows = 24 /\ rwIn.footerRows = 1
            /\ rwIn.items = <<SetRegion(24)>>) => rwOut[1] = SetRegion(23)

\* 24 rows, one footer row: a bare reset and CSI 1;24 r both came out as
\* CSI 1;23 r
C12_Witness ==
    /\ Len(rwOut) >= 1
    /\ rwIn.rows = 24 /\ rwIn.footerRows = 1
    /\ rwIn.items = <<RegionReset, SetRegion(24)>>
    /\ rwOut[1] = SetRegion(23) \o SetRegion(23)

----------------------------------------------------------------------------
(* The session on a terminal that is resized, with region tokens in the    *)
(* wrapped process's output (Linux, no colour stripping).  A resize of the *)
(* terminal raises SIGWINCH: Node refreshes process.stdout's size and, if  *)
(* it changed, emits 'resize' on process.stdout; then the wrapper's own    *)
(* SIGWINCH handler runs.  The session ends by the wrapped process's exit.  *)

GeomTickMs == 50        \* resolution of the clock in this session
MaxGeomElapsed == 100   \* this session is followed for MaxGeomElapsed ms
MaxGeomChunks == 1      \* chunks the wrapped process emits
MaxResizes == 1         \* resize notifications

GeomRows == {1, 22, 24}
GeomFooterRows == {1, 3}
GeomKinds == {"reset", "ptyRegion"}

\* CLAUDEFIX_NO_FOOTER=1; a later run with the footer off in the config; a
\* first run with the footer off in the config
GeomCfgs ==
    {[noFooterEnv |-> TRUE, firstRun |-> TRUE, footer |-> TRUE],
     [noFooterEnv |-> FALSE, firstRun |-> FALSE, footer |-> FALSE],
     [noFooterEnv |-> FALSE, firstRun |-> TRUE, footer |-> FALSE]}

InitGeom ==
    SessionInit(GeomCfgs, {DefaultRows}, GeomFooterRows, {FALSE}, {FALSE})

DataGeom == OnData(MaxGeomChunks, GeomKinds)

\* a variant that leaves the pending resize timer standing next to the new one
ArmResizeKeepEarlier(timer, t) == timer \cup {t + RESIZE_DEBOUNCE_MS}

\* if (resizeTimeout) clearTimeout(resizeTimeout);
\* resizeTimeout = setTimeout(..., RESIZE_DEBOUNCE_MS)
ArmResize(timer, t) == {t + RESIZE_DEBOUNCE_MS}

\* the terminal is resized to r rows (sizeChanged: rows or columns differ
\* from before): process.stdout.on('resize') if the size changed, then
\* process.on('SIGWINCH')
ResizeUpTo(limit, r, sizeChanged) ==
    /\ ~exited
    /\ Len(resizes) < limit
    /\ (r # stdoutRows) => sizeChanged
    /\ stdoutRows' = r
    /\ IF sizeChanged
       THEN /\ ptyRows' = PtyResize(r)
            /\ Emit(SetupScrollRegion(r, "resize")
                    \o (IF showFooter THEN DrawFooter(r, "resize")
                        ELSE <<>>))
       ELSE UNCHANGED <<ptyRows, written, ioVars>>
    /\ resizeTimeout' = ArmResize(resizeTimeout, now)
    /\ resizes' = Append(resizes,
           [opensBurst |-> (lastResizeTime = 0
                            \/ now - lastResizeTime >= RESIZE_DEBOUNCE_MS),
            sizeChanged |-> sizeChanged])
    /\ lastResizeTime' = now
    /\ UNCHANGED <<sgrVars, rwVars, extVars, footerRows, sshDraw, footerCfg, now,
                   outputBuffer, flushTimer, pendingDraw, footerInterval,
                   exiting, startupCleared, lastFullRenderTime, showFooter,
                   sshMode, isMac, shouldStrip, ptySignal, exited, nextChunk,
                   lastDataTime, arrivals, lastRepaintFlush>>

Resize(r, sizeChanged) == ResizeUpTo(MaxResizes, r, sizeChanged)

\* the SIGWINCH debounce timer fires
ResizeFire ==
    /\ ~exited
    /\ \E d \in resizeTimeout : d <= now
    /\ resizeTimeout' = {}
    /\ ptyRows' = PtyResize(stdoutRows)
    /\ Emit(SetupScrollRegion(stdoutRows, "sigwinch")
            \o (IF showFooter /\ ~sshMode
                THEN DrawFooter(stdoutRows, "sigwinch") ELSE <<>>))
    /\ sshDraw' = IF showFooter /\ sshMode
                  THEN sshDraw \cup {now + SshSettleMs} ELSE sshDraw
    /\ UNCHANGED <<sgrVars, rwVars, extVars, stdoutRows, footerRows, resizes,
                   lastResizeTime, footerCfg, now, outputBuffer, flushTimer,
                   pendingDraw, footerInterval, exiting, startupCleared,
                   lastFullRenderTime, showFooter, sshMode, isMac,
                   shouldStrip, ptySignal, exited, nextChunk, lastDataTime,
                   arrivals, lastRepaintFlush>>

\* setTimeout(drawFooter, 50) of the SIGWINCH handler fires (remote session)
SshDrawFire ==
    /\ ~exited
    /\ \E d \in sshDraw :
        /\ d <= now
        /\ sshDraw' = sshDraw \ {d}
    /\ Emit(DrawFooter(stdoutRows, "sshdelay"))
    /\ UNCHANGED <<sgrVars, rwVars, extVars, stdoutRows, footerRows, ptyRows,
                   resizeTimeout, resizes, lastResizeTime, footerCfg, now,
                   outputBuffer, flushTimer, pendingDraw, footerInterval,
                   exiting, startupCleared, lastFullRenderTime, showFooter,
                   sshMode, isMac, shouldStrip, ptySignal, exited, nextChunk,
                   lastDataTime, arrivals, lastRepaintFlush>>

TickGeom == Advance(GeomTickMs, MaxGeomElapsed)

NextGeom ==
    \/ DataGeom
    \/ ProcessAndFlush
    \/ FooterDrawFire
    \/ FooterKeepAlive
    \/ OnExit
    \/ \E r \in GeomRows, sizeChanged \in BOOLEAN : Resize(r, sizeChanged)
    \/ ResizeFire
    \/ SshDrawFire
    \/ TickGeom

SpecGeom == InitGeom /\ [][NextGeom]_vars

----------------------------------------------------------------------------
(* Claims about the scroll region, the overlay and resizes.                *)

\* the overlay is active: enabled, local session
OverlayActive == showFooter /\ ~sshMode

\* the content rows of a terminal of rows rows, as the claims state them
ClaimedContentRows(rows) == Max(1, rows - footerRows)

\* what a terminal makes of the bytes it receives: the bottom rows of the
\* scroll regions set by the region tokens CSI <top>;<bottom> r in s, in
\* order; a token without a bottom sets the region to all of the full rows
RECURSIVE RegionBottoms(_, _)
RegionBottoms(s, full) ==
    IF Len(s) = 0 THEN <<>>
    ELSE IF Len(s) >= 3 /\ s[1] = ESC /\ s[2] = "["
    THEN LET j == ParamRunEnd(s, 3) IN
         IF j <= Len(s) /\ s[j] = "r"
         THEN LET ps == Split(SubSeq(s, 3, j - 1)) IN
              <<IF Len(ps) >= 2 /\ ps[2] # <<>> THEN parseInt(ps[2])
                ELSE full>>
              \o RegionBottoms(SubSeq(s, j + 1, Len(s)), full)
         ELSE RegionBottoms(Tail(s), full)
    ELSE RegionBottoms(Tail(s), full)

\* the regions set on the real terminal by setupScrollRegion and by the
\* timer-driven flushes, in order
RECURSIVE EstablishedBottoms(_)
EstablishedBottoms(ws) ==
    IF Len(ws) = 0 THEN <<>>
    ELSE (IF Head(ws).kind \in {"region", "flush"}
          THEN RegionBottoms(Head(ws).data, Head(ws).rows) ELSE <<>>)
         \o EstablishedBottoms(Tail(ws))

\* C11 as claimed: in a local session with the overlay enabled, until
\* teardown, the scroll region most recently established on the real
\* terminal has its bottom row at most contentRows of the terminal's
\* current row count.
C11_FooterRowsNeverReclaimed ==
    (OverlayActive /\ ~exiting) =>
        LET bs == EstablishedBottoms(written) IN
        bs # <<>> => bs[Len(bs)] <= ClaimedContentRows(TermRows)

\* the region bottoms a rewritten flush must carry: a bare reset and a
\* token of the full height become the content rows, any other is kept
RECURSIVE ExpectedBottoms(_, _)
ExpectedBottoms(bs, rows) ==
    IF Len(bs) = 0 THEN <<>>
    ELSE <<IF Head(bs) \in {0, rows} THEN ClaimedContentRows(rows)
           ELSE Head(bs)>>
         \o ExpectedBottoms(Tail(bs), rows)

\* C13: with the overlay active every geometry in use follows
\* contentRows = max(1, terminalRows - footerRows) of the terminal's row
\* count at that moment: the sequence setupScrollRegion writes sets the
\* region 1..contentRows, the PTY has contentRows rows, and a flush
\* rewrites resets and full-height tokens to the bottom contentRows.
C13_GeometryFormula ==
    /\ OverlayActive => ptyRows = ClaimedContentRows(TermRows)
    /\ \A k \in 1..Len(written) :
         /\ written[k].kind = "region" =>
              written[k].data =
                  RegionReset \o SaveCursor
                  \o SetRegion(ClaimedContentRows(written[k].rows))
                  \o RestoreCursor
         /\ (written[k].kind = "flush" /\ written[k].regionRewritten) =>
              RegionBottoms(written[k].data, 0) =
                  ExpectedBottoms(RegionBottoms(RawOf(written[k].chunks), 0),
                                  written[k].rows)

\* after a resize to one row (the clamp: 1 - footerRows < 1) the region
\* was set again, and a flush rewrote a bare reset to the one content row
C13_Witness ==
    /\ OverlayActive /\ TermRows = 1 /\ ptyRows = 1
    /\ \E k \in 1..Len(written) :
         written[k].kind = "region" /\ written[k].by = "sigwinch"
         /\ written[k].rows = 1
    /\ \E k \in 1..Len(written) :
         /\ written[k].kind = "flush" /\ written[k].rows = 1
         /\ arrivals[written[k].chunks[1]].kind = "reset"
         /\ RegionBottoms(written[k].data, 0) = <<1>>

\* C14 as claimed: contentRows + footerRows <= terminalRows in every
\* reachable state, so the last terminal row, where the overlay is drawn,
\* lies below the content region.
C14_ContentPlusFooterFits ==
    OverlayActive =>
        /\ ptyRows + footerRows <= TermRows
        /\ \A k \in 1..Len(written) :
             written[k].kind = "region" =>
                 LET bs == RegionBottoms(written[k].data, written[k].rows)
                 IN  bs[Len(bs)] + footerRows <= written[k].rows

\* the footer is disabled: by CLAUDEFIX_NO_FOOTER=1, or by the config
\* after the first run
FooterDisabled ==
    \/ footerCfg.noFooterEnv
    \/ ~footerCfg.firstRun /\ ~footerCfg.footer

\* C15: when the overlay is disabled or the session is remote, no overlay
\* draw is ever written to the terminal, whatever startup, flushes,
\* keep-alive ticks, resize events and resize debounce fires happen.
C15_NoOverlayWhenOffOrRemote ==
    (FooterDisabled \/ sshMode) =>
        \A k \in 1..Len(written) : written[k].kind # "footer"

\* a remote session with the footer enabled: a flush went out and its
\* debounced redraw fired, the terminal was resized, the resize debounce
\* fired and so did the delayed draw it armed; nothing was drawn
C15_Witness ==
    /\ sshMode /\ showFooter /\ ~exiting
    /\ NumWrites({"flush"}) >= 1 /\ pendingDraw = {}
    /\ Len(resizes) >= 1 /\ resizeTimeout = {} /\ sshDraw = {}
    /\ now >= StartTime + RESIZE_DEBOUNCE_MS + SshSettleMs
    /\ \A k \in 1..Len(written) : written[k].kind # "footer"

\* the number of resize bursts so far
NumBursts == Cardinality({k \in 1..Len(resizes) : resizes[k].opensBurst})

\* writes of the given kind issued by the two resize handlers
ResizeWrites(kind) ==
    {k \in 1..Len(written) :
        written[k].kind = kind /\ written[k].by \in {"resize", "sigwinch"}}

\* C16 as claimed, in a local session with the overlay enabled where
\* every recomputation writes the region: the resize handlers together
\* re-apply the region and redraw the overlay at most once per burst of
\* resize notifications, and once the debounce timer has fired at least
\* once.
C16_OneRecomputePerBurst ==
    (OverlayActive /\ ~exiting) =>
        /\ Cardinality(ResizeWrites("region")) <= NumBursts
        /\ Cardinality(ResizeWrites("footer")) <= NumBursts
        /\ (NumBursts >= 1 /\ resizeTimeout = {}) =>
               /\ Cardinality(ResizeWrites("region")) >= 1
               /\ Cardinality(ResizeWrites("footer")) >= 1

----------------------------------------------------------------------------
(* What processAndFlush makes of the bytes it takes from the buffer, as a  *)
(* function of the bytes, the platform and the session's flags.  The       *)
(* buffer is a sequence of whole pieces: a character of text or one of the *)
(* sequences the flush looks for.                                         *)

MaxFoItems == 3   \* pieces per buffer

FoItems == {<<"x">>, ClearScreen, ClearScrollback, CursorHome, RegionReset}
FoItemLists == UNION { [1..n -> FoItems] : n \in 0..MaxFoItems }

InitFlushOut ==
    /\ NoExt
    /\ rwIn \in [items : FoItemLists]
    /\ rwOut = <<>>
    /\ sgrIn = <<>> /\ sgrRes = <<>>
    /\ isMac \in BOOLEAN /\ startupCleared \in BOOLEAN
    /\ shouldStrip \in BOOLEAN /\ showFooter \in BOOLEAN
    /\ sshMode = FALSE
    /\ footerCfg \in {c \in FooterCfgs : c.firstRun /\ c.footer
                                          /\ c.noFooterEnv = ~showFooter}
    /\ stdoutRows = DefaultRows /\ footerRows = 1 /\ ptyRows = DefaultRows
    /\ now = 0 /\ outputBuffer = <<>> /\ flushTimer = {} /\ pendingDraw = {}
    /\ footerInterval = FALSE /\ exiting = FALSE /\ lastFullRenderTime = 0
    /\ ptySignal = "none" /\ exited = TRUE /\ nextChunk = 1
    /\ lastDataTime = 0 /\ arrivals = <<>> /\ written = <<>>
    /\ resizeTimeout = {} /\ sshDraw = {} /\ resizes = <<>>
    /\ lastResizeTime = 0 /\ lastRepaintFlush = 0
    /\ stdoutWritable = TRUE /\ stdoutError = FALSE /\ crashed = FALSE
    /\ lost = <<>>

\* the output of one flush of the buffer
ApplyFlushOutput ==
    /\ Len(rwOut) < 1
    /\ rwOut' = Append(rwOut, FlushOutput(Flatten(rwIn.items)))
    /\ UNCHANGED <<rwIn, sgrVars, schedVars, extVars>>

NextFlushOut == ApplyFlushOutput

SpecFlushOut == InitFlushOut /\ [][NextFlushOut]_vars

\* the number of places where pat occurs in s
Occurrences(s, pat) == Cardinality({i \in 1..Len(s) : MatchesAt(s, i, pat)})

\* C21: off macOS, in the output of a flush every clear-screen CSI 2 J is
\* immediately followed by CSI 3 J, and the output holds the clear-screens
\* of the wrapped process (plus the one of the startup prefix) and no
\* other; on macOS the output holds exactly the clear-screens and
\* scrollback clears the wrapped process wrote.
C21_ScrollbackClearFollowsClear ==
    Len(rwOut) >= 1 =>
        LET out == rwOut[1]
            raw == Flatten(rwIn.items)
        IN  /\ ~isMac =>
                 /\ \A i \in 1..Len(out) :
                        MatchesAt(out, i, ClearScreen) =>
                            MatchesAt(out, i + Len(ClearScreen), ClearScrollback)
                 /\ Occurrences(out, ClearScreen) =
                        Occurrences(raw, ClearScreen)
                        + (IF startupCleared THEN 0 ELSE 1)
            /\ isMac =>
                 /\ Occurrences(out, ClearScreen) = Occurrences(raw, ClearScreen)
                 /\ Occurrences(out, ClearScrollback) =
                        Occurrences(raw, ClearScrollback)

\* off macOS, after the startup clear: a buffer with two clear-screens and
\* no scrollback clear came out with two scrollback clears
C21_Witness ==
    /\ Len(rwOut) >= 1
    /\ ~isMac /\ startupCleared
    /\ Occurrences(Flatten(rwIn.items), ClearScreen) = 2
    /\ Occurrences(Flatten(rwIn.items), ClearScrollback) = 0
    /\ Occurrences(rwOut[1], ClearScrollback) = 2

----------------------------------------------------------------------------
(* The session when process.stdout is a pipe: it has no rows or columns,   *)
(* it is never resized, and its reader may go away, after which no write   *)
(* succeeds (a first run on Linux, no colour stripping).                   *)

InitPipe ==
    SessionInit({c \in FooterCfgs : c.firstRun /\ c.footer},
                {0}, {1}, {FALSE}, {FALSE})

\* the reader of the pipe closes it
StdoutBreak ==
    /\ ~exited
    /\ stdoutWritable
    /\ stdoutWritable' = FALSE
    /\ UNCHANGED <<sgrVars, rwVars, extVars, geomVars, stdoutError, crashed, lost, now,
                   outputBuffer, flushTimer, pendingDraw, footerInterval,
                   exiting, startupCleared, lastFullRenderTime, showFooter,
                   sshMode, isMac, shouldStrip, ptySignal, exited, nextChunk,
                   lastDataTime, arrivals, written, lastRepaintFlush>>

\* process.stdout emits the queued 'error'.  The wrapper registers no
\* 'error' listener on process.stdout and no uncaughtException handler,
\* so the event is thrown and Node ends the process.
UncaughtStdoutError ==
    /\ ~exited
    /\ stdoutError
    /\ stdoutError' = FALSE
    /\ crashed' = TRUE
    /\ exited' = TRUE
    /\ UNCHANGED <<sgrVars, rwVars, extVars, geomVars, stdoutWritable, lost, now,
                   outputBuffer, flushTimer, pendingDraw, footerInterval,
                   exiting, startupCleared, lastFullRenderTime, showFooter,
                   sshMode, isMac, shouldStrip, ptySignal, nextChunk,
                   lastDataTime, arrivals, written, lastRepaintFlush>>

NextPipe ==
    \/ Data
    \/ ProcessAndFlush
    \/ FooterDrawFire
    \/ FooterKeepAlive
    \/ \E signal \in Signals : CleanupAndKill(signal)
    \/ OnExit
    \/ Tick
    \/ StdoutBreak
    \/ UncaughtStdoutError

SpecPipe == InitPipe /\ [][NextPipe]_vars

\* chunk c is in the sequence of chunk ids cs
InChunks(c, cs) == \E j \in 1..Len(cs) : cs[j] = c

\* a timer-driven flush has failed
FlushFailed == \E j \in 1..Len(lost) : lost[j].kind = "flush"

\* C22 as claimed: the bytes of a flush whose write fails are discarded and
\* never retried (they are not in the buffer, no later write carries
\* them, and once they are gone an empty buffer has no flush timer), and
\* the failure does not end the wrapped session.
C22_FailedFlushDropped ==
    /\ \A j \in 1..Len(lost) :
         /\ ~InChunks(lost[j].chunk, outputBuffer)
         /\ ~InChunks(lost[j].chunk, WriteChunks(written))
    /\ (FlushFailed /\ outputBuffer = <<>>) => flushTimer = {}
    /\ FlushFailed => ~crashed

\* C23 as claimed: when process.stdout has no rows, no scroll-region
\* sequence and no overlay draw is written and the PTY keeps the full row
\* count.
C23_NoGeometryNoOverlay ==
    stdoutRows = 0 =>
        /\ NumWrites({"region", "footer"}) = 0
        /\ ptyRows = TermRows

----------------------------------------------------------------------------
(* Keyboard input (src/bin/claude-fixed.js:978-993): the stdin 'data'      *)
(* handler, checked under SpecStdin.  A chunk is the string data.toString() *)
(* of the bytes read; the chunks used here are ASCII, which toString keeps  *)
(* byte for byte.                                                           *)

MaxKeys == 3      \* stdin chunks per behaviour

CtrlShiftH == <<ESC, "[", "7", "2", ";", "6", "u">>          \* \x1b[72;6u
CtrlShiftHLower == <<ESC, "[", "1", "0", "4", ";", "6", "u">> \* \x1b[104;6u
Backspace == <<"BS">>                                          \* \x08

\* the chunks the terminal sends: a letter, backspace as 0x08 and as 0x7f,
\* an arrow key, the two encodings of Ctrl+Shift+H, two backspaces at once
StdinKeys ==
    { <<"a">>, Backspace, <<"DEL">>, <<ESC, "[", "A">>, CtrlShiftH,
      CtrlShiftHLower, <<"BS", "BS">> }

\* the condition of the handler's if statement
OpensWebsite(str) ==
    str = CtrlShiftH \/ str = CtrlShiftHLower \/ str = Backspace

\* process.stdin.on('data', ...)
StdinData(data) ==
    /\ ~exited
    /\ Len(stdinChunks) < MaxKeys
    /\ stdinChunks' = Append(stdinChunks, data)
    /\ IF OpensWebsite(data)
       THEN opened' = opened + 1 /\ UNCHANGED ptyInput
       ELSE ptyInput' = Append(ptyInput, data) /\ UNCHANGED opened
    /\ UNCHANGED <<sgrVars, rwVars, schedVars, hsVars, hookVars, ftVars,
                   hrVars>>

InitStdin ==
    SessionInit({c \in FooterCfgs : c.firstRun /\ c.footer},
                {DefaultRows}, {1}, {FALSE}, {FALSE})

NextStdin == \E data \in StdinKeys : StdinData(data)

SpecStdin == InitStdin /\ [][NextStdin]_vars

\* the reserved hotkey, Ctrl+Shift+H, as the terminal encodes it
ReservedHotkey == {CtrlShiftH, CtrlShiftHLower}

\* C24 as claimed: the chunks forwarded to the wrapped process are the
\* chunks read from the keyboard, verbatim and in arrival order, without
\* the chunks that are exactly the reserved hotkey; nothing else, a plain
\* backspace byte in particular, is swallowed.
C24_ForwardedExceptHotkey ==
    ptyInput = SelectSeq(stdinChunks, LAMBDA c : c \notin ReservedHotkey)

----------------------------------------------------------------------------
(* The session with terminal resizes and terminating signals, checked      *)
(* under SpecTeardown.                                                      *)

InitTeardown ==
    SessionInit({c \in FooterCfgs : c.firstRun /\ c.footer},
                {DefaultRows}, {1}, {FALSE}, {FALSE})

NextTeardown ==
    \/ DataGeom
    \/ ProcessAndFlush
    \/ FooterDrawFire
    \/ FooterKeepAlive
    \/ \E signal \in Signals : CleanupAndKill(signal)
    \/ OnExit
    \/ \E r \in GeomRows, sizeChanged \in BOOLEAN : Resize(r, sizeChanged)
    \/ ResizeFire
    \/ SshDrawFire
    \/ TickGeom

SpecTeardown == InitTeardown /\ [][NextTeardown]_vars

\* the writes of the teardown and the writes of the resize handlers
TeardownBy == {"signal", "exit"}
ResizeBy == {"resize", "sigwinch", "sshdelay"}

\* C25 as claimed: once teardown has run (on exit of the wrapped process or
\* on a terminating signal) no resize timer is pending in the wrapper, and
\* no region write or overlay draw of a resize handler follows a write of
\* the teardown.
C25_NoResizeWorkAfterTeardown ==
    /\ (exiting /\ ~exited) => (resizeTimeout = {} /\ sshDraw = {})
    /\ \A i, j \in 1..Len(written) :
          (i < j /\ written[i].by \in TeardownBy)
              => written[j].by \notin ResizeBy

----------------------------------------------------------------------------
(* The stdout hook (src/unnamed/part_001).                                  *)
(*                                                                          *)
(* Regular expressions.  Every pattern of the hook is a sequence of greedy  *)
(* atoms, each a character class taken once, optionally, any number of     *)
(* times or at least once; the group (7|2) is the class [72].  A match at a *)
(* position is found the way the backtracking matcher finds it: each atom   *)
(* first takes as many characters as it can and gives them back one by one  *)
(* while the rest of the pattern does not match.                            *)

Lit(c) == [cs |-> {c}, lo |-> 1, star |-> FALSE]
One(cs) == [cs |-> cs, lo |-> 1, star |-> FALSE]
Opt(c) == [cs |-> {c}, lo |-> 0, star |-> FALSE]
Star(cs) == [cs |-> cs, lo |-> 0, star |-> TRUE]
Plus(cs) == [cs |-> cs, lo |-> 1, star |-> TRUE]

\* the characters of a literal string, each taken once
Lits(str) == [k \in 1..Len(str) |-> Lit(str[k])]

\* number of consecutive characters of s from index p on that are in cs,
\* at most cap
RECURSIVE Run(_, _, _, _)
Run(s, p, cs, cap) ==
    IF cap = 0 \/ p > Len(s) \/ s[p] \notin cs THEN 0
    ELSE 1 + Run(s, p + 1, cs, cap - 1)

\* atoms k.. of re matched against s from index p: whether they match and
\* how many characters each atom takes in the match the matcher reports
RECURSIVE MatchFrom(_, _, _, _), TryCount(_, _, _, _, _)
MatchFrom(re, k, s, p) ==
    IF k > Len(re) THEN [ok |-> TRUE, lens |-> <<>>]
    ELSE TryCount(re, k, s, p,
                  Run(s, p, re[k].cs, IF re[k].star THEN Len(s) ELSE 1))

TryCount(re, k, s, p, n) ==
    IF n < re[k].lo THEN [ok |-> FALSE, lens |-> <<>>]
    ELSE LET r == MatchFrom(re, k + 1, s, p + n)
         IN IF r.ok THEN [ok |-> TRUE, lens |-> <<n>> \o r.lens]
            ELSE TryCount(re, k, s, p, n - 1)

RECURSIVE SumLens(_)
SumLens(lens) == IF Len(lens) = 0 THEN 0 ELSE Head(lens) + SumLens(Tail(lens))

\* the text atoms a..b took in a match of s at p
Span(s, p, lens, a, b) ==
    LET from == p + SumLens(SubSeq(lens, 1, a - 1))
    IN SubSeq(s, from, from + SumLens(SubSeq(lens, a, b)) - 1)

PS == Digits \cup {";"}     \* [0-9;]
CSI == <<ESC, "[">>         \* \x1b\[

\* params.replace(/^;+/, '')
RECURSIVE StripLeadingSemis(_)
StripLeadingSemis(str) ==
    IF Len(str) > 0 /\ str[1] = ";" THEN StripLeadingSemis(Tail(str)) ELSE str

\* params.replace(/;+$/, '')
RECURSIVE StripTrailingSemis(_)
StripTrailingSemis(str) ==
    IF Len(str) > 0 /\ str[Len(str)] = ";"
    THEN StripTrailingSemis(SubSeq(str, 1, Len(str) - 1)) ELSE str

\* params.replace(/;;+/g, ';')
RECURSIVE CollapseSemis(_)
CollapseSemis(str) ==
    IF Len(str) < 2 THEN str
    ELSE IF str[1] = ";" /\ str[2] = ";" THEN CollapseSemis(Tail(str))
    ELSE <<str[1]>> \o CollapseSemis(Tail(str))

\* the callback of the two background replaces of stripCompoundBgCodes;
\* pre is params after pre.slice(2)
BgCallback(pre, sep2, post) ==
    LET params == IF sep2 # <<>> /\ post # <<>> THEN pre \o post
                  ELSE IF post[Len(post)] # "m" THEN pre \o <<"m">>
                  ELSE pre
    IN IF params = <<"m">> \/ params = <<";", "m">> THEN CSI \o <<"0", "m">>
       ELSE CSI \o CollapseSemis(StripTrailingSemis(StripLeadingSemis(params)))

\* ANSI_BG_PATTERNS, each replaced by ''
ANSI_BG_PATTERNS ==
    << [re |-> Lits(CSI \o <<"4", "8", ";", "5", ";">>)
               \o <<Plus(Digits), Lit("m")>>, rep |-> "empty"],
       [re |-> Lits(CSI \o <<"4", "8", ";", "2", ";">>)
               \o <<Plus(Digits), Lit(";"), Plus(Digits), Lit(";"),
                    Plus(Digits), Lit("m")>>, rep |-> "empty"],
       [re |-> Lits(CSI \o <<"4">>)
               \o <<One({"0", "1", "2", "3", "4", "5", "6", "7"}), Lit("m")>>,
        rep |-> "empty"],
       [re |-> Lits(CSI \o <<"1", "0">>)
               \o <<One({"0", "1", "2", "3", "4", "5", "6", "7"}), Lit("m")>>,
        rep |-> "empty"],
       [re |-> Lits(CSI \o <<"7", "m">>), rep |-> "empty"],
       [re |-> Lits(CSI \o <<"2", "7", "m">>), rep |-> "empty"],
       [re |-> Lits(CSI \o <<"4", "9", "m">>), rep |-> "empty"],
       [re |-> Lits(CSI \o <<"2", "m">>), rep |-> "empty"],
       [re |-> Lits(CSI \o <<"2", "2", "m">>), rep |-> "empty"] >>

\* the six replaces of stripCompoundBgCodes, in order
CompoundPatterns ==
    << [re |-> Lits(CSI) \o <<Star(PS)>> \o Lits(<<"4", "8", ";", "5", ";">>)
               \o <<Plus(Digits), Opt(";")>>, rep |-> "bg256"],
       [re |-> Lits(CSI) \o <<Star(PS)>> \o Lits(<<"4", "8", ";", "2", ";">>)
               \o <<Plus(Digits), Lit(";"), Plus(Digits), Lit(";"),
                    Plus(Digits), Opt(";")>>, rep |-> "bgTrue"],
       [re |-> Lits(CSI) \o <<Star(PS), Opt(";"), Lit("4"),
                    One({"0", "1", "2", "3", "4", "5", "6", "7", "9"}),
                    Opt(";"), Star(PS), Lit("m")>>, rep |-> "bgStd"],
       [re |-> Lits(CSI) \o <<Star(PS), Opt(";"), Lit("1"), Lit("0"),
                    One({"0", "1", "2", "3", "4", "5", "6", "7"}),
                    Opt(";"), Star(PS), Lit("m")>>, rep |-> "bgBright"],
       [re |-> Lits(CSI) \o <<Star(PS), Opt(";"), One({"7", "2"}), Lit(";"),
                    Plus(PS), Lit("m")>>, rep |-> "invDimInside"],
       [re |-> Lits(CSI) \o <<Plus(PS), Lit(";"), One({"7", "2"}), Lit("m")>>,
        rep |-> "invDimLast"] >>

\* the two cleanup replaces of stripBackgroundColors
CleanupPatterns ==
    << [re |-> Lits(CSI) \o <<Star({";"}), Lit("m")>>, rep |-> "reset"],
       [re |-> Lits(CSI \o <<"m">>), rep |-> "reset"] >>

\* what a match of rx in s at p is replaced by
Replacement(rx, s, p, lens) ==
    CASE rx.rep = "empty" -> <<>>
      [] rx.rep = "bg256" -> Span(s, p, lens, 1, 3) \o Span(s, p, lens, 10, 10)
      [] rx.rep = "bgTrue" -> Span(s, p, lens, 1, 3) \o Span(s, p, lens, 14, 14)
      [] rx.rep = "bgStd" ->
            BgCallback(Span(s, p, lens, 3, 3), Span(s, p, lens, 7, 7),
                       Span(s, p, lens, 8, 9))
      [] rx.rep = "bgBright" ->
            BgCallback(Span(s, p, lens, 3, 3), Span(s, p, lens, 8, 8),
                       Span(s, p, lens, 9, 10))
      [] rx.rep = "invDimInside" ->
            Span(s, p, lens, 1, 3) \o Span(s, p, lens, 7, 8)
      [] rx.rep = "invDimLast" -> Span(s, p, lens, 1, 3) \o <<"m">>
      [] rx.rep = "reset" -> CSI \o <<"0", "m">>

\* s.replace(rx, ...) with the g flag, scanning from index p: leftmost match
\* first, the scan resumes behind the match
RECURSIVE RegexReplaceFrom(_, _, _)
RegexReplaceFrom(s, p, rx) ==
    IF p > Len(s) THEN <<>>
    ELSE LET m == MatchFrom(rx.re, 1, s, p)
         IN IF m.ok
            THEN Replacement(rx, s, p, m.lens)
                 \o RegexReplaceFrom(s, p + SumLens(m.lens), rx)
            ELSE <<s[p]>> \o RegexReplaceFrom(s, p + 1, rx)

RegexReplace(s, rx) == RegexReplaceFrom(s, 1, rx)

\* the replaces of rxs applied one after the other
RECURSIVE ReplaceEach(_, _)
ReplaceEach(s, rxs) ==
    IF Len(rxs) = 0 THEN s
    ELSE ReplaceEach(RegexReplace(s, Head(rxs)), Tail(rxs))

stripCompoundBgCodes(str) == ReplaceEach(str, CompoundPatterns)

stripBackgroundColors(chunk) ==
    ReplaceEach(stripCompoundBgCodes(ReplaceEach(chunk, ANSI_BG_PATTERNS)),
                CleanupPatterns)

----------------------------------------------------------------------------
(* stripBackgroundColors as a state machine, checked under SpecHookStrip:  *)
(* an SGR token followed by a character of text is drawn, then the function *)
(* is applied to it.                                                        *)

MaxHsItems == 2    \* a token is the concatenation of at most MaxHsItems items

\* Parameter runs a token is assembled from: reset, styles, dim, inverse,
\* foreground colours (standard, default, bright, 256-colour, truecolor) and
\* background colours (standard, bright, 256-colour, truecolor)
HsItems ==
    { << <<"0">> >>, << <<"1">> >>, << <<"4">> >>, << <<"2">> >>,
      << <<"7">> >>, << <<"3", "2">> >>, << <<"3", "9">> >>,
      << <<"9", "2">> >>, << <<"4", "1">> >>, << <<"1", "0", "1">> >>,
      << <<"3", "8">>, <<"5">>, <<"2">> >>,
      << <<"3", "8">>, <<"5">>, <<"4", "2">> >>,
      << <<"3", "8">>, <<"2">>, <<"1">>, <<"2">>, <<"3">> >>,
      << <<"4", "8">>, <<"5">>, <<"1">> >>,
      << <<"4", "8">>, <<"2">>, <<"1">>, <<"2">>, <<"3">> >> }

HsItemLists == UNION { [1..n -> HsItems] : n \in 0..MaxHsItems }

HsInputs == { Token(Flatten(l)) \o <<"x">> : l \in HsItemLists }

InitHookStrip ==
    /\ hsIn \in HsInputs
    /\ hsOut = <<>>
    /\ sgrIn = <<>> /\ sgrRes = <<>>
    /\ rwIn = <<>> /\ rwOut = <<>>
    /\ NoStdin /\ NoHook /\ NoFooterLine /\ NoHookResize
    /\ now = 0 /\ NoWrapper

\* stripColors(hsIn) of the hook's exports
ApplyHookStrip ==
    /\ hsOut = <<>>
    /\ hsOut' = <<stripBackgroundColors(hsIn)>>
    /\ UNCHANGED <<hsIn, sgrVars, rwVars, schedVars, stdinVars, hookVars,
                   ftVars, hrVars>>

NextHookStrip == ApplyHookStrip

SpecHookStrip == InitHookStrip /\ [][NextHookStrip]_vars

\* the codes the hook is to keep: styles 1, 3, 4, 9 and foreground colours
FgStyleCodes == {1, 3, 4, 9, 39} \cup (30..37) \cup (90..97)

\* the foreground colours and styles of a token, written out as integers
RECURSIVE FgStyleInts(_)
FgStyleInts(els) ==
    IF Len(els) = 0 THEN <<>>
    ELSE (IF els[1].kind = "fg"
             \/ (els[1].kind = "code" /\ els[1].vals[1] \in FgStyleCodes)
          THEN els[1].vals ELSE <<>>) \o FgStyleInts(Tail(els))

\* a string without its last character (the text behind the token)
ButLast(str) == SubSeq(str, 1, Len(str) - 1)

\* C29 as claimed: stripBackgroundColors keeps foreground colours and
\* styles: where the input token carries foreground colour codes (30-37, 39,
\* 90-97, 38;5;N, 38;2;R;G;B) or style codes 1, 3, 4, 9, the output is an
\* SGR token (CSI, digits and semicolons, m), followed by the same text,
\* whose non-empty parameters carry exactly these codes, unchanged and in
\* order.
C29_KeepsForegroundAndStyles ==
    hsOut # <<>> =>
        LET want == FgStyleInts(Elements(IntsOf(ButLast(hsIn))))
            out == hsOut[1]
        IN want # <<>> =>
             /\ Len(out) >= 1 /\ out[Len(out)] = "x"
             /\ SgrMatchEnd(ButLast(out)) = Len(out) - 1
             /\ FgStyleInts(Elements(IntsOf(ButLast(out)))) = want

----------------------------------------------------------------------------
(* The hook itself: install, disable, setConfig, the replaced               *)
(* process.stdout.write, the stdin listener and the periodic clear, checked *)
(* under SpecHook.  The clock moves from one timer deadline to the next:   *)
(* between two deadlines only stdin events and writes happen.               *)

periodicClearMs == 60000
clearAfterRenders == 500
typingCooldownMs == 500

MaxHookHorizon == 61000  \* timers are followed up to MaxHookHorizon ms
MaxInstalls == 2         \* install() calls
MaxRenderCount == 3      \* the program writes while renderCount is below this
FewRenders == 2          \* the value setConfig gives clearAfterRenders

CLEAR_SCROLLBACK == <<ESC, "[", "3", "J">>
CURSOR_SAVE == <<ESC, "[", "s">>
CURSOR_RESTORE == <<ESC, "[", "u">>
CLEAR_SCREEN == <<ESC, "[", "2", "J">>
HOME_CURSOR == <<ESC, "[", "H">>
ChatCleared == <<"C", "h", "a", "t", " ", "c", "l", "e", "a", "r", "e", "d">>
ConversationCleared ==
    <<"C", "o", "n", "v", "e", "r", "s", "a", "t", "i", "o", "n", " ",
      "c", "l", "e", "a", "r", "e", "d">>

\* the characters with a code below 32 or above 126 that occur here:
\* \x1b, \b, \x7f, \n, \r
ControlChars == {ESC, "BS", "DEL", "LF", "CR"}

isStdinEcho(chunk) ==
    \/ Len(chunk) = 1 /\ chunk[1] \notin ControlChars
    \/ Len(chunk) <= 4 /\ (Includes(chunk, <<"BS">>) \/ Includes(chunk, <<"DEL">>))
    \/ /\ Len(chunk) <= 6 /\ MatchesAt(chunk, 1, CSI)
       /\ ~Includes(chunk, <<"J">>) /\ ~Includes(chunk, <<"H">>)
    \/ chunk = <<"LF">> \/ chunk = <<"CR">> \/ chunk = <<"CR", "LF">>

\* isTypingActive() at time t
isTypingActive(t, typed) == (t - typed) < typingCooldownMs

\* a variant of the echo branch that strips the echo like any other chunk
EchoPassStripped(chunk) == stripBackgroundColors(chunk)

\* the echo branch: originalWrite(chunk, encoding, callback)
EchoPass(chunk) == chunk

\* a variant of install's first test that looks at config.disabled only
InstallSkipsIfDisabled == hookCfg.disabled

\* install(): the test of its first if statement
InstallSkips == installed \/ hookCfg.disabled

\* a variant of the render-count test that does not look at typing
RenderClearDueWhileTyping(chunk, rc, t) ==
    /\ (Includes(chunk, CLEAR_SCREEN) \/ Includes(chunk, HOME_CURSOR))
    /\ hookCfg.clearAfterRenders > 0
    /\ rc >= hookCfg.clearAfterRenders

\* the hook's three nested tests before the render-count clear: chunk is
\* the stripped chunk, rc is renderCount after renderCount++
RenderClearDue(chunk, rc, t) ==
    /\ (Includes(chunk, CLEAR_SCREEN) \/ Includes(chunk, HOME_CURSOR))
    /\ hookCfg.clearAfterRenders > 0
    /\ rc >= hookCfg.clearAfterRenders
    /\ ~isTypingActive(t, lastTypingTime)

\* the body of the replaced write for a string chunk at time t: what is
\* passed to originalWrite and what becomes of renderCount and
\* lastTypingTime
HookString(chunk, t) ==
    IF isStdinEcho(chunk)
    THEN [data |-> EchoPass(chunk), echo |-> TRUE, renderCount |-> renderCount,
          lastTypingTime |-> t, clear |-> {}]
    ELSE LET rc == renderCount + 1
             stripped == IF hookCfg.stripBgColors
                         THEN stripBackgroundColors(chunk) ELSE chunk
             due == RenderClearDue(stripped, rc, t)
             c1 == IF due THEN CLEAR_SCROLLBACK \o stripped ELSE stripped
             cmd == Includes(c1, ConversationCleared) \/ Includes(c1, ChatCleared)
         IN [data |-> IF cmd THEN CLEAR_SCROLLBACK \o c1 ELSE c1,
             echo |-> FALSE,
             renderCount |-> IF due THEN 0 ELSE rc,
             lastTypingTime |-> lastTypingTime,
             clear |-> (IF due THEN {"renders"} ELSE {})
                       \cup (IF cmd THEN {"command"} ELSE {})]

\* one call of the real write, as recorded in hookWrites
RealWrite(by, isString, in, res, t) ==
    [by |-> by, isString |-> isString, in |-> in, data |-> res.data,
     echo |-> res.echo, clear |-> res.clear,
     typing |-> isTypingActive(t, res.lastTypingTime),
     renderBefore |-> renderCount, renderAfter |-> res.renderCount,
     typedBefore |-> (lastTypingTime = t),
     typedAfter |-> (res.lastTypingTime = t)]

\* a chunk that goes through unchanged
Untouched(chunk) ==
    [data |-> chunk, echo |-> FALSE, renderCount |-> renderCount,
     lastTypingTime |-> lastTypingTime, clear |-> {}]

\* a full repaint with a background colour
Repaint == CLEAR_SCREEN \o HOME_CURSOR \o <<ESC, "[", "4", "1", "m", "x">>

\* what the program writes, as strings: a typed letter, a colour change on
\* its own, cursor home on its own, a full repaint and the /clear message;
\* and the repaint as a Buffer
HookChunks ==
    { [isString |-> TRUE, data |-> d] :
        d \in { <<"a">>, <<ESC, "[", "4", "1", "m">>, HOME_CURSOR, Repaint,
                ChatCleared } }
    \cup { [isString |-> FALSE, data |-> Repaint] }

\* environment and config at module load: the defaults on a terminal;
\* CLAUDE_TERMINAL_FIX_DISABLED=1; a TERM that is not supported;
\* CLAUDE_STRIP_BG_COLORS=0; streams that are no terminals
HookCfgs ==
    LET default == [disabled |-> FALSE, stripBgColors |-> TRUE,
                    supported |-> TRUE, stdinTTY |-> TRUE,
                    stdoutTTY |-> TRUE,
                    clearAfterRenders |-> clearAfterRenders]
    IN { default,
         [default EXCEPT !.disabled = TRUE],
         [default EXCEPT !.supported = FALSE],
         [default EXCEPT !.stripBgColors = FALSE],
         [default EXCEPT !.stdinTTY = FALSE, !.stdoutTTY = FALSE] }

InitHook ==
    /\ sgrIn = <<>> /\ sgrRes = <<>>
    /\ rwIn = <<>> /\ rwOut = <<>>
    /\ NoStdin /\ NoHookStrip /\ NoWrapper /\ NoFooterLine /\ NoHookResize
    /\ now = StartTime
    /\ hookCfg \in HookCfgs
    /\ installCalls = 0
    /\ installed = FALSE /\ originalWrite = "none" /\ stdoutWrite = "real"
    /\ clearIntervals = <<>> /\ onWraps = 0 /\ renderCount = 0
    /\ lastTypingTime = 0 /\ pendingClear = FALSE /\ deferTimer = {}
    /\ immediates = 0 /\ hookWrites = <<>>

hookFrame == <<sgrVars, rwVars, stdinVars, hsVars, ftVars, hrVars, ioVars,
               outputBuffer,
               flushTimer, pendingDraw, footerInterval, exiting,
               startupCleared, lastFullRenderTime, showFooter, sshMode,
               isMac, shouldStrip, ptySignal, exited, nextChunk,
               lastDataTime, arrivals, written, lastRepaintFlush, geomVars>>

\* install()
Install ==
    /\ installCalls < MaxInstalls
    /\ installCalls' = installCalls + 1
    /\ IF InstallSkips \/ ~hookCfg.supported
       THEN UNCHANGED <<installed, originalWrite, stdoutWrite, clearIntervals,
                        onWraps>>
       ELSE /\ originalWrite' = stdoutWrite
            /\ stdoutWrite' = "hook"
            /\ onWraps' = onWraps + 1
            /\ clearIntervals' = IF periodicClearMs > 0
                                 THEN Append(clearIntervals, now + periodicClearMs)
                                 ELSE clearIntervals
            /\ installed' = TRUE
    /\ UNCHANGED <<hookFrame, now, hookCfg, renderCount, lastTypingTime,
                   pendingClear, deferTimer, immediates, hookWrites>>

\* disable()
Disable ==
    /\ originalWrite # "none"
    /\ stdoutWrite # originalWrite
    /\ stdoutWrite' = originalWrite
    /\ UNCHANGED <<hookFrame, now, hookCfg, installCalls, installed,
                   originalWrite, clearIntervals, onWraps, renderCount,
                   lastTypingTime, pendingClear, deferTimer, immediates,
                   hookWrites>>

\* setConfig('clearAfterRenders', value)
SetConfig(value) ==
    /\ hookCfg.clearAfterRenders # value
    /\ hookCfg' = [hookCfg EXCEPT !.clearAfterRenders = value]
    /\ UNCHANGED <<hookFrame, now, installCalls, installed, originalWrite,
                   stdoutWrite, clearIntervals, onWraps, renderCount,
                   lastTypingTime, pendingClear, deferTimer, immediates,
                   hookWrites>>

\* the program calls process.stdout.write(chunk): the real write while the
\* hook is not in place, else the hook, which calls originalWrite; a hook
\* whose originalWrite is the hook calls itself without end
StdoutWrite(chunk, isString) ==
    /\ renderCount < MaxRenderCount
    /\ LET res == IF stdoutWrite = "hook" /\ isString
                  THEN HookString(chunk, now) ELSE Untouched(chunk)
           by == IF stdoutWrite = "real" THEN "direct"
                 ELSE IF originalWrite = "hook" THEN "overflow" ELSE "hook"
       IN /\ hookWrites' = <<RealWrite(by, isString, chunk, res, now)>>
          /\ renderCount' = res.renderCount
          /\ lastTypingTime' = res.lastTypingTime
    /\ UNCHANGED <<hookFrame, now, hookCfg, installCalls, installed,
                   originalWrite, stdoutWrite, clearIntervals, onWraps,
                   pendingClear, deferTimer, immediates>>

\* process.stdin 'data': the listener install() adds when stdin is a terminal
HookStdinData ==
    /\ onWraps > 0 /\ hookCfg.stdinTTY
    /\ lastTypingTime' = now
    /\ UNCHANGED <<sgrVars, rwVars, hsVars, ftVars, hrVars, schedVars,
                   stdinVars, hookCfg, installCalls, installed, originalWrite,
                   stdoutWrite, clearIntervals, onWraps, renderCount,
                   pendingClear, deferTimer, immediates, hookWrites>>

\* safeClearScrollback() at the present time: the deferred-clear timer, the
\* pendingClear flag and the queue of setImmediate callbacks it leaves;
\* pending is the flag as the caller left it
SafeClear(pending) ==
    IF isTypingActive(now, lastTypingTime)
    THEN [pendingClear |-> TRUE,
          deferTimer |-> IF pending THEN deferTimer
                         ELSE deferTimer \cup {now + typingCooldownMs},
          immediates |-> immediates]
    ELSE [pendingClear |-> pending, deferTimer |-> deferTimer,
          immediates |-> IF originalWrite # "none" /\ hookCfg.stdoutTTY
                         THEN immediates + 1 ELSE immediates]

\* the periodic-clear interval fires
PeriodicClear ==
    /\ \E i \in 1..Len(clearIntervals) :
        /\ clearIntervals[i] <= now
        /\ clearIntervals' =
               [clearIntervals EXCEPT ![i] = clearIntervals[i] + periodicClearMs]
    /\ LET r == SafeClear(pendingClear)
       IN /\ pendingClear' = r.pendingClear
          /\ deferTimer' = r.deferTimer
          /\ immediates' = r.immediates
    /\ UNCHANGED <<hookFrame, now, hookCfg, installCalls, installed,
                   originalWrite, stdoutWrite, onWraps, renderCount,
                   lastTypingTime, hookWrites>>

\* the timer of a deferred clear fires
DeferredClear ==
    /\ \E d \in deferTimer :
        /\ d <= now
        /\ LET rest == deferTimer \ {d}
               r == IF isTypingActive(now, lastTypingTime)
                    THEN [pendingClear |-> FALSE, deferTimer |-> rest,
                          immediates |-> immediates]
                    ELSE [SafeClear(FALSE) EXCEPT !.deferTimer = rest]
           IN /\ pendingClear' = r.pendingClear
              /\ deferTimer' = r.deferTimer
              /\ immediates' = r.immediates
    /\ UNCHANGED <<hookFrame, now, hookCfg, installCalls, installed,
                   originalWrite, stdoutWrite, clearIntervals, onWraps,
                   renderCount, lastTypingTime, hookWrites>>

\* a setImmediate callback of safeClearScrollback runs
ImmediateClear ==
    /\ immediates > 0
    /\ immediates' = immediates - 1
    /\ hookWrites' =
           <<RealWrite("immediate", TRUE, <<>>,
                       [Untouched(CURSOR_SAVE \o CLEAR_SCROLLBACK \o CURSOR_RESTORE)
                          EXCEPT !.clear = {"periodic"}], now)>>
    /\ UNCHANGED <<hookFrame, now, hookCfg, installCalls, installed,
                   originalWrite, stdoutWrite, clearIntervals, onWraps,
                   renderCount, lastTypingTime, pendingClear, deferTimer>>

\* the deadlines of the hook's timers
HookDeadlines ==
    deferTimer \cup {clearIntervals[i] : i \in 1..Len(clearIntervals)}

\* time passes up to the next deadline; timers that are due and queued
\* setImmediate callbacks run first
HookTick ==
    /\ immediates = 0
    /\ \A d \in HookDeadlines : d > now
    /\ \E t \in HookDeadlines :
        /\ \A d \in HookDeadlines : t <= d
        /\ t <= StartTime + MaxHookHorizon
        /\ now' = t
    /\ UNCHANGED <<sgrVars, rwVars, extVars, geomVars, ioVars, outputBuffer,
                   flushTimer, pendingDraw, footerInterval, exiting,
                   startupCleared, lastFullRenderTime, showFooter, sshMode,
                   isMac, shouldStrip, ptySignal, exited, nextChunk,
                   lastDataTime, arrivals, written, lastRepaintFlush>>

NextHook ==
    \/ Install
    \/ Disable
    \/ SetConfig(FewRenders)
    \/ \E chunk \in HookChunks : StdoutWrite(chunk.data, chunk.isString)
    \/ HookStdinData
    \/ PeriodicClear
    \/ DeferredClear
    \/ ImmediateClear
    \/ HookTick

SpecHook == InitHook /\ [][NextHook]_vars

\* C26: install() is idempotent: whatever the number of install() calls
\* (and of disable() calls between them), originalWrite is never the hook
\* itself, so process.stdout.write is wrapped at most once and no write
\* runs into a hook that calls itself; at most one periodic-clear interval
\* exists; process.on is wrapped for the SIGWINCH debounce at most once.
C26_InstallIdempotent ==
    /\ originalWrite \in {"none", "real"}
    /\ Len(clearIntervals) <= 1
    /\ onWraps <= 1
    /\ \A i \in 1..Len(hookWrites) : hookWrites[i].by # "overflow"

\* install() was called again after it had put the hook in place
C26_Witness ==
    /\ installCalls >= 2
    /\ installed /\ stdoutWrite = "hook" /\ originalWrite = "real"
    /\ Len(clearIntervals) = 1 /\ onWraps = 1

C28_NoClearWhileTyping ==
    \A i \in 1..Len(hookWrites) :
        (hookWrites[i].clear \cap {"periodic", "renders"} # {})
            => ~hookWrites[i].typing

BgCodes == (40..47) \cup {49} \cup (100..107)

\* str holds an SGR token with a background colour code or group
HasBgToken(str) ==
    \E i \in 1..Len(str) :
        LET rest == SubSeq(str, i, Len(str))
            e == SgrMatchEnd(rest)
        IN /\ e > 0
           /\ LET els == Elements(IntsOf(SubSeq(rest, 1, e)))
              IN \E k \in 1..Len(els) :
                   \/ els[k].kind = "bg"
                   \/ els[k].kind = "code" /\ els[k].vals[1] \in BgCodes

\* C30 as claimed: with config.stripBgColors on, no string chunk that goes
\* through the hook reaches the original write with a background colour
\* token (40-47, 49, 100-107, 48;5;N, 48;2;R;G;B) in it.
C30_NoBackgroundReachesTerminal ==
    hookCfg.stripBgColors =>
        \A i \in 1..Len(hookWrites) :
            (hookWrites[i].by = "hook" /\ hookWrites[i].isString)
                => ~HasBgToken(hookWrites[i].data)

\* a step in which a string chunk went through the hook
HookWriteStep ==
    /\ hookWrites' # <<>>
    /\ (hookWrites' # hookWrites \/ renderCount' # renderCount)
    /\ hookWrites'[1].by = "hook" /\ hookWrites'[1].isString

\* C31: the render-count scrollback clear is put in front of a chunk exactly
\* when the chunk is no stdin echo, holds a clear-screen or a cursor-home
\* sequence, renderCount (this chunk counted) has reached clearAfterRenders
\* and typing is not active; renderCount goes to 0 exactly then; an echo
\* leaves it alone and every other chunk, a clear skipped for typing
\* included, counts one more.
C31_RenderClearExactlyWhenDue ==
    [][HookWriteStep =>
         LET w == hookWrites'[1]
             echo == isStdinEcho(w.in)
             eligible == /\ ~echo
                         /\ (Includes(w.in, CLEAR_SCREEN)
                             \/ Includes(w.in, HOME_CURSOR))
                         /\ renderCount + 1 >= hookCfg.clearAfterRenders
             cleared == eligible /\ ~isTypingActive(now, lastTypingTime)
             command == ~echo /\ Includes(w.in, ChatCleared)
         IN /\ ("renders" \in w.clear) <=> cleared
            /\ MatchesAt(w.data, 1, CLEAR_SCROLLBACK) <=> (cleared \/ command)
            /\ renderCount' = IF cleared THEN 0
                              ELSE IF echo THEN renderCount
                              ELSE renderCount + 1]_vars

\* a clear was written by a chunk that came when the count had already
\* passed the threshold
C31_Witness ==
    /\ hookWrites # <<>>
    /\ hookWrites[1].by = "hook"
    /\ "renders" \in hookWrites[1].clear
    /\ hookWrites[1].renderBefore >= hookCfg.clearAfterRenders
    /\ renderCount = 0

----------------------------------------------------------------------------
(* drawFooter as a function of the terminal size, checked under SpecFooter. *)

FOOTER_TEXT ==
    <<"c", "l", "a", "u", "d", "e", "f", "i", "x", " ", "b", "y", " ", "H",
      "a", "r", "d", "w", "i", "c", "k", " ", "S", "o", "f", "t", "w", "a",
      "r", "e">>
FOOTER_URL ==
    <<"h", "t", "t", "p", "s", ":", "/", "/", "j", "u", "s", "t", "c", "a",
      "l", "l", "j", "o", "n", ".", "p", "r", "o">>
HOTKEY_TEXT ==
    <<"C", "t", "r", "l", "+", "S", "h", "i", "f", "t", "+", "H">>
RAINBOW_COLORS == <<196, 208, 226, 46, 51, 21, 129>>

Fg256(n) == <<ESC, "[", "3", "8", ";", "5", ";">> \o ToDigits(n) \o <<"m">>
SgrReset == <<ESC, "[", "0", "m">>

RECURSIVE RainbowFrom(_, _, _)
RainbowFrom(text, i, colorIdx) ==
    IF i > Len(text) THEN <<>>
    ELSE IF text[i] = " "
         THEN <<" ">> \o RainbowFrom(text, i + 1, colorIdx)
         ELSE Fg256(RAINBOW_COLORS[(colorIdx % Len(RAINBOW_COLORS)) + 1])
                  \o <<text[i]>> \o RainbowFrom(text, i + 1, colorIdx + 1)

makeRainbow(text) == RainbowFrom(text, 1, 0) \o SgrReset

\* OSC 8 hyperlink
makeClickableLink(url, text) ==
    <<ESC, "]", "8", ";", ";">> \o url \o <<"BEL">> \o text
        \o <<ESC, "]", "8", ";", ";", "BEL">>

hotkeyStyled ==
    Fg256(251) \o <<"[">> \o Fg256(226) \o HOTKEY_TEXT \o Fg256(251)
        \o <<"]">> \o SgrReset

fullFooter ==
    makeRainbow(FOOTER_TEXT) \o <<" ", "-", " ">>
        \o makeClickableLink(FOOTER_URL, Fg256(45) \o FOOTER_URL \o SgrReset)
        \o <<" ">> \o hotkeyStyled

plainLen ==
    Len(FOOTER_TEXT) + 3 + Len(FOOTER_URL) + 1 + Len(HOTKEY_TEXT) + 2

DefaultCols == 80
TermColsOf(cols) == IF cols = 0 THEN DefaultCols ELSE cols

Spaces(n) == [i \in 1..n |-> " "]
AtLeastZero(n) == IF n > 0 THEN n ELSE 0

padding(cols) == AtLeastZero((cols - plainLen) \div 2)
trailingSpaces(cols) == AtLeastZero(cols - padding(cols) - plainLen)

\* what drawFooter writes in a local session without the specmem status bar
FooterWrite(columns, rows) ==
    LET cols == TermColsOf(columns)
    IN SaveCursor \o MoveToRow(TermRowsOf(rows)) \o Spaces(padding(cols))
           \o fullFooter \o Spaces(trailingSpaces(cols)) \o RestoreCursor

MaxFooterCols == 100
FooterTermRows == {0, DefaultRows}

InitFooter ==
    /\ ftIn \in { <<[cols |-> c, rows |-> r]>> :
                    c \in 0..MaxFooterCols, r \in FooterTermRows }
    /\ ftOut = <<>>
    /\ sgrIn = <<>> /\ sgrRes = <<>>
    /\ rwIn = <<>> /\ rwOut = <<>>
    /\ NoStdin /\ NoHookStrip /\ NoHook /\ NoHookResize
    /\ now = 0 /\ NoWrapper

\* drawFooter()
ApplyDrawFooter ==
    /\ ftOut = <<>>
    /\ ~sshMode
    /\ ftOut' = <<FooterWrite(ftIn[1].cols, ftIn[1].rows)>>
    /\ UNCHANGED <<ftIn, sgrVars, rwVars, schedVars, stdinVars, hsVars,
                   hookVars, hrVars>>

NextFooter == ApplyDrawFooter

SpecFooter == InitFooter /\ [][NextFooter]_vars

\* the index at which the escape sequence starting at str[e] ends: the
\* final byte of a CSI sequence, the BEL of an OSC string, the second
\* character of a two-character sequence (cursor save, cursor restore)
SeqEnd(str, e) ==
    IF e = Len(str) THEN e
    ELSE IF str[e + 1] = "[" THEN ParamRunEnd(str, e + 2)
    ELSE IF str[e + 1] = "]"
         THEN LET ends == { j \in (e + 2)..Len(str) : str[j] = "BEL" }
              IN IF ends = {} THEN Len(str)
                 ELSE CHOOSE j \in ends : \A k \in ends : j <= k
    ELSE e + 1

\* the number of columns a terminal advances over str: one for every
\* character outside the escape sequences
DisplayWidth(str) ==
    LET spans == { <<e, SeqEnd(str, e)>> :
                     e \in { i \in 1..Len(str) : str[i] = ESC } }
    IN Cardinality({ i \in 1..Len(str) :
                       \A sp \in spans : i < sp[1] \/ i > sp[2] })

\* an erase-in-line sequence: CSI K, CSI 0 K, CSI 1 K or CSI 2 K
HasLineClear(str) ==
    \E i \in 1..Len(str) :
        /\ MatchesAt(str, i, <<ESC, "[">>)
        /\ LET j == ParamRunEnd(str, i + 2)
           IN j <= Len(str) /\ str[j] = "K"

----------------------------------------------------------------------------
(* What setupScrollRegion and drawFooter write.                             *)

\* the indices of str at which a scroll-region sequence (CSI ... r, set or
\* reset) starts; each of them sends the cursor to the home position
RegionStarts(str) ==
    { i \in 1..Len(str) :
        /\ MatchesAt(str, i, <<ESC, "[">>)
        /\ LET j == ParamRunEnd(str, i + 2)
           IN j <= Len(str) /\ str[j] = "r" }

\* C32 as claimed: in what setupScrollRegion writes, every scroll-region
\* set or reset comes after a cursor save and before a cursor restore.
C32_RegionChangeBracketed ==
    \A k \in 1..Len(written) :
        written[k].kind = "region" =>
            \A i \in RegionStarts(written[k].data) :
                /\ \E a \in 1..(i - 1) :
                       MatchesAt(written[k].data, a, SaveCursor)
                /\ \E b \in (i + 1)..Len(written[k].data) :
                       MatchesAt(written[k].data, b, RestoreCursor)

\* C33 as claimed: for every column count of at least 1 the row drawFooter
\* writes is exactly as wide as the terminal, and holds no line-clear
\* sequence.
C33_FooterRowFillsTheRow ==
    (ftOut # <<>> /\ ftIn[1].cols >= 1) =>
        /\ DisplayWidth(ftOut[1]) = ftIn[1].cols
        /\ ~HasLineClear(ftOut[1])

----------------------------------------------------------------------------
(* The session with bursts of chunks and of resizes, on the fine clock,    *)
(* checked under SpecBurst.                                                *)

MaxBurstChunks == 2     \* chunks the wrapped process emits
MaxBurstResizes == 2    \* resize notifications
MaxBurstElapsed == 56   \* this session is followed for MaxBurstElapsed ms

DataBurst == OnData(MaxBurstChunks, {"text"})

ResizeBurst ==
    \E sizeChanged \in BOOLEAN :
        ResizeUpTo(MaxBurstResizes, DefaultRows, sizeChanged)

\* the delayed drawFooter of a remote session is due SshSettleMs after the
\* debounce timer has fired, past the time this session is followed for
TickBurst == Advance(TickMs, MaxBurstElapsed)

NextBurst ==
    \/ DataBurst
    \/ ProcessAndFlush
    \/ FooterDrawFire
    \/ ResizeBurst
    \/ ResizeFire
    \/ TickBurst

SpecBurst == InitTeardown /\ [][NextBurst]_vars

\* C34: in every reachable state at most one flush timer, at most one
\* debounced footer redraw timer and at most one resize timer is pending.
C34_OneTimerPerKind ==
    /\ Cardinality(flushTimer) <= 1
    /\ Cardinality(pendingDraw) <= 1
    /\ Cardinality(resizeTimeout) <= 1

\* a resize arrived while the timer of an earlier one was pending, and a
\* chunk arrived while the flush timer of an earlier one was pending
C34_Witness ==
    /\ Len(resizes) >= 2
    /\ ~resizes[Len(resizes)].opensBurst
    /\ resizeTimeout # {}
    /\ Len(outputBuffer) >= 2
    /\ flushTimer # {}

----------------------------------------------------------------------------
(* The hook's SIGWINCH debounce (installResizeDebounce), checked under     *)
(* SpecHookResize.  Handlers registered through the wrapped process.on are *)
(* collected in sigwinchHandlers; the one real listener is                  *)
(* debouncedSigwinch.                                                       *)

resizeDebounceMs == 150

HrTickMs == 50          \* resolution of the clock in this session
MaxHrElapsed == 500     \* the session is followed for MaxHrElapsed ms
MaxHandlers == 2        \* SIGWINCH handlers registered
MaxSigwinch == 3        \* SIGWINCH signals received

\* sigwinchHandlers.forEach(h => h()) at time t, from the timer or not
RunHandlers(timer, t, events) ==
    Append(handlerRuns,
           [at |-> t, timer |-> timer, events |-> events,
            handlers |-> sigwinchHandlers])

\* a variant that leaves a pending timer running instead of replacing it
HookArmResizeKeepPending(pending, t) ==
    IF pending # {} THEN pending ELSE {t + resizeDebounceMs}

\* if (resizeTimeout) clearTimeout(resizeTimeout);
\* resizeTimeout = setTimeout(..., config.resizeDebounceMs)
HookArmResize(pending, t) == {t + resizeDebounceMs}

\* process.on('SIGWINCH', handler) through the wrapper of the hook
ProcessOnSigwinch ==
    /\ onWraps > 0
    /\ sigwinchHandlers < MaxHandlers
    /\ sigwinchHandlers' = sigwinchHandlers + 1
    /\ UNCHANGED <<sgrVars, rwVars, schedVars, stdinVars, hsVars, hookVars,
                   ftVars, hookLastResizeTime, hookResizeTimeout,
                   sigwinchEvents, handlerRuns>>

\* SIGWINCH: debouncedSigwinch, the listener registered with the first
\* handler
DebouncedSigwinch ==
    /\ sigwinchHandlers >= 1
    /\ Len(sigwinchEvents) < MaxSigwinch
    /\ sigwinchEvents' = Append(sigwinchEvents, now)
    /\ hookLastResizeTime' = now
    /\ IF now - hookLastResizeTime < resizeDebounceMs
       THEN /\ hookResizeTimeout' = HookArmResize(hookResizeTimeout, now)
            /\ UNCHANGED handlerRuns
       ELSE /\ hookResizeTimeout' = {}
            /\ handlerRuns' = RunHandlers(FALSE, now, Len(sigwinchEvents) + 1)
    /\ UNCHANGED <<sgrVars, rwVars, schedVars, stdinVars, hsVars, hookVars,
                   ftVars, sigwinchHandlers>>

\* the debounce timer fires
HookResizeFire ==
    /\ \E d \in hookResizeTimeout : d <= now
    /\ hookResizeTimeout' = {}
    /\ handlerRuns' = RunHandlers(TRUE, now, Len(sigwinchEvents))
    /\ UNCHANGED <<sgrVars, rwVars, schedVars, stdinVars, hsVars, hookVars,
                   ftVars, hookLastResizeTime, sigwinchHandlers,
                   sigwinchEvents>>

\* time passes; a timer that is due fires first
HrTick ==
    /\ now + HrTickMs <= StartTime + MaxHrElapsed
    /\ \A d \in hookResizeTimeout : d > now
    /\ now' = now + HrTickMs
    /\ UNCHANGED <<sgrVars, rwVars, extVars, geomVars, ioVars, outputBuffer,
                   flushTimer, pendingDraw, footerInterval, exiting,
                   startupCleared, lastFullRenderTime, showFooter, sshMode,
                   isMac, shouldStrip, ptySignal, exited, nextChunk,
                   lastDataTime, arrivals, written, lastRepaintFlush>>

NextHookResize ==
    \/ Install
    \/ ProcessOnSigwinch
    \/ DebouncedSigwinch
    \/ HookResizeFire
    \/ HrTick

SpecHookResize == InitHook /\ [][NextHookResize]_vars

\* event e opens a burst: it is the first, or comes resizeDebounceMs or
\* more after the one before
LeadsBurst(e) ==
    e = 1 \/ sigwinchEvents[e] - sigwinchEvents[e - 1] >= resizeDebounceMs

\* event e closes a burst: it is the latest, or the next one comes
\* resizeDebounceMs or more after it
ClosesBurst(e) ==
    e = Len(sigwinchEvents)
    \/ sigwinchEvents[e + 1] - sigwinchEvents[e] >= resizeDebounceMs

\* C35: in the hook's SIGWINCH debounce the latest event is never lost
\* (the handlers have run since it arrived, or the timer that will run them
\* is pending, due resizeDebounceMs after it), and the handlers only run at
\* the event that opens a burst and, from the timer, after the event that
\* closes one, resizeDebounceMs or more after it; at most once each.
C35_BurstEndsWithHandlersRun ==
    /\ sigwinchEvents # <<>> =>
          \/ \E k \in 1..Len(handlerRuns) :
                handlerRuns[k].events = Len(sigwinchEvents)
          \/ hookResizeTimeout =
                {sigwinchEvents[Len(sigwinchEvents)] + resizeDebounceMs}
    /\ \A k \in 1..Len(handlerRuns) :
          LET r == handlerRuns[k]
          IN /\ r.events >= 1
             /\ r.handlers >= 1
             /\ IF r.timer
                THEN /\ ClosesBurst(r.events)
                     /\ ~LeadsBurst(r.events)
                     /\ r.at >= sigwinchEvents[r.events] + resizeDebounceMs
                ELSE /\ LeadsBurst(r.events)
                     /\ r.at = sigwinchEvents[r.events]
    /\ \A j, k \in 1..Len(handlerRuns) :
          (handlerRuns[j].events = handlerRuns[k].events
           /\ handlerRuns[j].timer = handlerRuns[k].timer) => j = k

\* a burst of three events less than resizeDebounceMs apart: the handlers
\* ran at the first and, from the timer, after the third
C35_Witness ==
    /\ Len(sigwinchEvents) = 3
    /\ sigwinchEvents[2] - sigwinchEvents[1] < resizeDebounceMs
    /\ sigwinchEvents[3] - sigwinchEvents[2] < resizeDebounceMs
    /\ sigwinchEvents[3] > sigwinchEvents[1]
    /\ Len(handlerRuns) = 2
    /\ ~handlerRuns[1].timer /\ handlerRuns[1].events = 1
    /\ handlerRuns[2].timer /\ handlerRuns[2].events = 3

----------------------------------------------------------------------------
(* Further claims about the hook's stripBackgroundColors.                   *)

\* the indices of str at which a CSI introducer starts
CsiStarts(str) == { i \in 1..Len(str) : MatchesAt(str, i, <<ESC, "[">>) }

\* C36 as claimed: stripBackgroundColors returns well-formed sequences: on
\* an input made of a well-formed SGR token and text, every CSI introducer
\* of the output is followed by digits and semicolons and then by its m,
\* and no parameter of a token is empty unless the token is the reset CSI m.
C36_OutputWellFormed ==
    hsOut # <<>> =>
        \A i \in CsiStarts(hsOut[1]) :
            LET out == hsOut[1]
                j == ParamRunEnd(out, i + 2)
            IN /\ j <= Len(out) /\ out[j] = "m"
               /\ j > i + 2 =>
                     \A q \in 1..Len(Split(SubSeq(out, i + 2, j - 1))) :
                         Split(SubSeq(out, i + 2, j - 1))[q] # <<>>

----------------------------------------------------------------------------
(* The session with coloured output, region resets and teardown, checked   *)
(* under SpecFinal.                                                        *)

InitFinal ==
    SessionInit({c \in FooterCfgs : c.firstRun /\ c.footer},
                {DefaultRows}, {1}, {FALSE}, BOOLEAN)

DataFinal == OnData(MaxGeomChunks, {"bg", "reset"})

NextFinal ==
    \/ DataFinal
    \/ ProcessAndFlush
    \/ FooterDrawFire
    \/ FooterKeepAlive
    \/ \E signal \in Signals : CleanupAndKill(signal)
    \/ OnExit
    \/ TickGeom

SpecFinal == InitFinal /\ [][NextFinal]_vars

\* C37 as claimed: with colour stripping enabled, every write that carries
\* bytes of the wrapped process, the writes of the teardown included, went
\* through the sanitizer (no background colour token is left in it) and,
\* with the overlay active, through the region rewrite (no bare region
\* reset is left in it).
C37_ProcessBytesSanitized ==
    \A k \in 1..Len(written) :
        (shouldStrip /\ CarriesChunks(written[k])) =>
            /\ written[k].stripped
            /\ ~Includes(written[k].data, ChunkData("bg"))
            /\ OverlayActive =>
                  /\ written[k].regionRewritten
                  /\ ~Includes(written[k].data, RegionReset)

----------------------------------------------------------------------------
(* Further claims about the flush scheduler and teardown.                  *)

\* the number of places chunk c is at: positions in the buffer and in the
\* writes made so far
Copies(c) ==
    Cardinality({ i \in 1..Len(outputBuffer) : outputBuffer[i] = c })
    + Cardinality({ kj \in (1..Len(written)) \X (1..MaxChunks) :
                      /\ kj[2] <= Len(written[kj[1]].chunks)
                      /\ written[kj[1]].chunks[kj[2]] = c })

\* C38 as claimed: every chunk the wrapped process delivered, those
\* delivered after a terminating signal included, is in the buffer or in
\* exactly one write, never lost and never written twice; once the wrapper
\* has exited it is in exactly one write.
C38_EveryByteWrittenOnce ==
    \A c \in 1..Len(arrivals) :
        /\ Copies(c) = 1
        /\ exited => \E k \in 1..Len(written) : InWrite(c, written[k])

\* C39: while the session is not exiting, a non-empty output buffer always
\* has a flush timer pending, due no later than the longest flush delay
\* after now.
C39_BufferedMeansTimerPending ==
    (~exiting /\ outputBuffer # <<>>) =>
        /\ flushTimer # {}
        /\ \A d \in flushTimer : d <= now + Max(FLUSH_DELAY_MS, COALESCE_DELAY_MS)

\* two chunks sit in the buffer: the second re-armed the timer of the first
C39_Witness ==
    /\ ~exiting
    /\ Len(outputBuffer) >= 2
    /\ flushTimer # {}
    /\ arrivals[outputBuffer[2]].close

\* str sets a constrained scroll region: a region sequence with parameters
SetsConstrainedRegion(str) ==
    \E i \in RegionStarts(str) : ParamRunEnd(str, i + 2) > i + 2

\* C40 as claimed: after the region reset of the teardown nothing written
\* to the terminal sets a constrained scroll region or draws the overlay,
\* whichever handler or timer writes it.
C40_NothingRedrawnAfterTeardown ==
    \A i, j \in 1..Len(written) :
        (i < j /\ written[i].kind = "reset") =>
            /\ written[j].kind # "footer"
            /\ ~SetsConstrainedRegion(written[j].data)


====
